---- MODULE Spec2Model ----
(***************************************************************************)
(* State-machine model of FerreteriaSearchSystem (catalog load, inverted   *)
(* index, scored AND-search, query cache, paged rendering, debounce).      *)
(*                                                                         *)
(* Text is a sequence of one-character strings, so that normalisation,     *)
(* tokenisation and the cache key are computed and not assumed.            *)
(* Scores are kept as the integer sum of weights: the code's score is this *)
(* sum divided by 100, and MIN_SCORE 0.15 is 15 on that scale.             *)
(***************************************************************************)
EXTENDS Integers, Sequences, FiniteSets, TLC

----------------------------------------------------------------------------
(* Generic helpers                                                         *)

Min(a, b) == IF a <= b THEN a ELSE b

Range(s) == { s[i] : i \in DOMAIN s }

RECURSIVE SumSeq(_)
SumSeq(s) == IF s = <<>> THEN 0 ELSE Head(s) + SumSeq(Tail(s))

\* the elements of a set of integers as an ascending sequence
RECURSIVE AscendingSeq(_)
AscendingSeq(S) ==
    IF S = {} THEN <<>>
    ELSE LET m == CHOOSE x \in S : \A y \in S : x <= y
         IN  <<m>> \o AscendingSeq(S \ {m})

----------------------------------------------------------------------------
(* Characters and String.prototype operations                              *)

Lowers == <<"a","b","c","d","e","f","g","h","i","j","k","l","m",
            "n","o","p","q","r","s","t","u","v","w","x","y","z","á","ñ">>

Uppers == <<"A","B","C","D","E","F","G","H","I","J","K","L","M",
            "N","O","P","Q","R","S","T","U","V","W","X","Y","Z","Á","Ñ">>

Digits == <<"0","1","2","3","4","5","6","7","8","9">>

\* letters that decompose (NFD) into a base letter and a combining mark
Accented == <<"á","ñ">>

AccentBase == <<"a","n">>

IsSpace(c) == c = " "

IsAsciiLower(c) == \E i \in 1..26 : Lowers[i] = c

IsDigit(c) == c \in Range(Digits)

\* String.prototype.toLowerCase, one character
ToLowerChar(c) ==
    IF \E i \in DOMAIN Uppers : Uppers[i] = c
    THEN Lowers[CHOOSE i \in DOMAIN Uppers : Uppers[i] = c]
    ELSE c

\* normalize('NFD') followed by the removal of U+0300..U+036F, one character
StripAccentChar(c) ==
    IF \E i \in DOMAIN Accented : Accented[i] = c
    THEN AccentBase[CHOOSE i \in DOMAIN Accented : Accented[i] = c]
    ELSE c

\* String.prototype.trim
RECURSIVE TrimLeft(_)
TrimLeft(s) == IF s # <<>> /\ IsSpace(Head(s)) THEN TrimLeft(Tail(s)) ELSE s

RECURSIVE TrimRight(_)
TrimRight(s) ==
    IF s # <<>> /\ IsSpace(s[Len(s)]) THEN TrimRight(SubSeq(s, 1, Len(s) - 1)) ELSE s

Trim(s) == TrimRight(TrimLeft(s))

\* replace(/\s+/g, ' ')
RECURSIVE CollapseSpaces(_)
CollapseSpaces(s) ==
    IF s = <<>> THEN <<>>
    ELSE IF IsSpace(Head(s))
         THEN <<" ">> \o CollapseSpaces(TrimLeft(s))
         ELSE <<Head(s)>> \o CollapseSpaces(Tail(s))

\* split(/\s+/): the pieces between maximal runs of white space.  The empty
\* pieces a leading or trailing run produces are left out: every caller
\* either filters on length >= 2 or looks up a word of length >= 2.
RECURSIVE SplitWords(_)
SplitWords(s) ==
    LET t == TrimLeft(s)
    IN  IF t = <<>> THEN <<>>
        ELSE LET n == IF \E i \in 1..Len(t) : IsSpace(t[i])
                      THEN (CHOOSE i \in 1..Len(t) :
                               IsSpace(t[i]) /\ \A j \in 1..(i-1) : ~IsSpace(t[j])) - 1
                      ELSE Len(t)
             IN  <<SubSeq(t, 1, n)>> \o SplitWords(SubSeq(t, n + 1, Len(t)))

\* String.prototype.startsWith
StartsWith(s, w) == Len(w) <= Len(s) /\ SubSeq(s, 1, Len(w)) = w

\* String.prototype.includes
Includes(s, w) ==
    \E i \in 0..(Len(s) - Len(w)) : SubSeq(s, i + 1, i + Len(w)) = w

\* Array.prototype.includes on an array of strings
ArrayIncludes(arr, w) == \E i \in DOMAIN arr : arr[i] = w

\* decimal digits of a natural number, as String(n) prints it
RECURSIVE NatToText(_)
NatToText(n) ==
    IF n < 10 THEN <<Digits[n + 1]>>
    ELSE NatToText(n \div 10) \o <<Digits[(n % 10) + 1]>>

DigitValue(c) == (CHOOSE i \in DOMAIN Digits : Digits[i] = c) - 1

RECURSIVE TextToNat(_)
TextToNat(s) ==
    IF s = <<>> THEN 0
    ELSE TextToNat(SubSeq(s, 1, Len(s) - 1)) * 10 + DigitValue(s[Len(s)])

----------------------------------------------------------------------------
(* JSON values of a raw record field                                       *)

Str(s) == [t |-> "str", s |-> s, n |-> 0]

Num(n) == [t |-> "num", s |-> <<>>, n |-> n]

Undef == [t |-> "undef", s |-> <<>>, n |-> 0]

\* JavaScript truthiness of a field value
Truthy(v) ==
    CASE v.t = "str" -> v.s # <<>>
      [] v.t = "num" -> v.n # 0
      [] OTHER       -> FALSE

\* String(v)
ToText(v) ==
    CASE v.t = "str" -> v.s
      [] v.t = "num" -> IF v.n < 0 THEN <<"-">> \o NatToText(0 - v.n) ELSE NatToText(v.n)
      [] OTHER       -> <<"u","n","d","e","f","i","n","e","d">>

\* Number(v) || 0, for integer-valued prices (a string that is not an
\* optionally signed run of digits gives NaN, or 0 when empty, hence 0)
ToNumberOrZero(v) ==
    CASE v.t = "num" -> v.n
      [] v.t = "str" ->
            LET t == Trim(v.s)
                neg == t # <<>> /\ Head(t) = "-"
                d == IF neg THEN Tail(t) ELSE t
            IN  IF d # <<>> /\ \A i \in DOMAIN d : IsDigit(d[i])
                THEN (IF neg THEN 0 - TextToNat(d) ELSE TextToNat(d))
                ELSE 0
      [] OTHER       -> 0

\* v || ''
OrEmpty(v) == IF Truthy(v) THEN v ELSE Str(<<>>)

----------------------------------------------------------------------------
(* Text normalisation                                                      *)

\* normalizeText applies only to strings: text.toLowerCase throws otherwise
NormalizeTextThrows(v) == v.t # "str"

normalizeText(s) == [i \in DOMAIN s |-> StripAccentChar(ToLowerChar(s[i]))]

normalizeSearchText(s) ==
    LET n == normalizeText(s)
        symbolsOut == [i \in DOMAIN n |->
                          IF IsAsciiLower(n[i]) \/ IsDigit(n[i]) \/ IsSpace(n[i])
                          THEN n[i] ELSE " "]
    IN  Trim(CollapseSpaces(symbolsOut))

\* the query words: normalised, split, words shorter than 2 dropped
SearchWords(term) ==
    SelectSeq(SplitWords(normalizeSearchText(term)), LAMBDA w : Len(w) >= 2)

----------------------------------------------------------------------------
(* Configuration (this.CONFIG)                                             *)

\* CONFIG.MAX_RESULTS is 25, CONFIG.BATCH_SIZE 15 and CONFIG.CACHE_SIZE 50 in
\* the source; the model runs the same code with smaller values so that the
\* cap, a second page and an eviction happen with a catalog of a few items.
MAX_RESULTS == 5

BATCH_SIZE == 2

CACHE_SIZE == 2

\* CONFIG.MIN_SCORE 0.15, on the scale of the undivided score
MIN_SCORE == 15

CODIGO_EXACTO == 100

CODIGO_STARTS_WITH == 50

CODIGO_CONTAINS == 30

DESCRIPCION_PALABRA == 35

DESCRIPCION_CONTAINS == 20

MARCA_EXACTA == 25

MARCA_CONTAINS == 15

RUBRO_EXACTO == 10

MULTIPLE_MATCHES == 5

----------------------------------------------------------------------------
(* Catalog load: processProducts and buildSearchStructures                 *)

\* a raw record of products.json; isNull marks a null array entry
Raw(c, d, r, m, p) ==
    [isNull |-> FALSE, codigo |-> c, descripcion |-> d, rubro |-> r, marca |-> m,
     precio_venta |-> p]

NullRaw == [isNull |-> TRUE, codigo |-> Undef, descripcion |-> Undef, rubro |-> Undef,
            marca |-> Undef, precio_venta |-> Undef]

\* the validation at the head of the forEach callback
Incomplete(raw) ==
    ~Truthy(raw.codigo) \/ ~Truthy(raw.descripcion) \/ ~Truthy(raw.precio_venta)

\* the callback throws a TypeError: a property read on null, or toLowerCase
\* called on a value that is not a string
RecordThrows(raw) ==
    \/ raw.isNull
    \/ /\ ~Incomplete(raw)
       /\ \/ NormalizeTextThrows(raw.codigo)
          \/ NormalizeTextThrows(raw.descripcion)
          \/ NormalizeTextThrows(OrEmpty(raw.marca))
          \/ NormalizeTextThrows(OrEmpty(raw.rubro))

\* the template literal `${codigo} ${descripcion} ${marca} ${rubro}`
SearchSource(raw) ==
    ToText(raw.codigo) \o <<" ">> \o ToText(raw.descripcion) \o <<" ">>
        \o ToText(raw.marca) \o <<" ">> \o ToText(raw.rubro)

\* the object pushed on state.normalizedData
NormalizedOf(raw, i) ==
    [index |-> i,
     codigo |-> Trim(ToText(raw.codigo)),
     descripcion |-> Trim(ToText(raw.descripcion)),
     rubro |-> Trim(ToText(OrEmpty(raw.rubro))),
     marca |-> Trim(ToText(OrEmpty(raw.marca))),
     precio_venta |-> ToNumberOrZero(raw.precio_venta),
     searchText |-> normalizeSearchText(SearchSource(raw)),
     codigoNormalized |-> normalizeText(raw.codigo.s),
     descripcionNormalized |-> normalizeText(raw.descripcion.s),
     marcaNormalized |-> normalizeText(OrEmpty(raw.marca).s),
     rubroNormalized |-> normalizeText(OrEmpty(raw.rubro).s)]

\* the object pushed on state.products
ProductOf(n) ==
    [codigo |-> n.codigo, descripcion |-> n.descripcion, rubro |-> n.rubro,
     marca |-> n.marca, precio_venta |-> n.precio_venta]

\* a forEach callback that pushes on state.products before the validation
RECURSIVE ProcessFrom_pushFirst(_, _, _)
ProcessFrom_pushFirst(payload, i, acc) ==
    IF i > Len(payload) THEN acc
    ELSE LET raw == payload[i]
         IN  IF RecordThrows(raw) THEN [acc EXCEPT !.threw = TRUE]
             ELSE IF Incomplete(raw)
                  THEN ProcessFrom_pushFirst(payload, i + 1,
                         [acc EXCEPT !.products =
                             Append(@, [codigo |-> Trim(ToText(raw.codigo)),
                                        descripcion |-> Trim(ToText(raw.descripcion)),
                                        rubro |-> Trim(ToText(OrEmpty(raw.rubro))),
                                        marca |-> Trim(ToText(OrEmpty(raw.marca))),
                                        precio_venta |-> ToNumberOrZero(raw.precio_venta)])])
             ELSE LET n == NormalizedOf(raw, i - 1)
                  IN  ProcessFrom_pushFirst(payload, i + 1,
                        [acc EXCEPT !.products = Append(@, ProductOf(n)),
                                    !.normalizedData = Append(@, n),
                                    !.rubros = IF n.rubro # <<>> THEN @ \cup {n.rubro}
                                               ELSE @])

\* processProducts: the arrays are emptied, then the records are taken in
\* order; raw index i is 0-based as in forEach.  A throwing record ends the
\* loop with what was pushed before it.
RECURSIVE ProcessFrom(_, _, _)
ProcessFrom(payload, i, acc) ==
    IF i > Len(payload) THEN acc
    ELSE LET raw == payload[i]
         IN  IF RecordThrows(raw) THEN [acc EXCEPT !.threw = TRUE]
             ELSE IF Incomplete(raw) THEN ProcessFrom(payload, i + 1, acc)
             ELSE LET n == NormalizedOf(raw, i - 1)
                  IN  ProcessFrom(payload, i + 1,
                        [acc EXCEPT !.products = Append(@, ProductOf(n)),
                                    !.normalizedData = Append(@, n),
                                    !.rubros = IF n.rubro # <<>> THEN @ \cup {n.rubro}
                                               ELSE @])

processProducts(payload) ==
    ProcessFrom(payload, 1,
                [products |-> <<>>, normalizedData |-> <<>>, rubros |-> {}, threw |-> FALSE])

\* an indexing that also files an item under the prefixes of its words
IndexedWords_withPrefixes(searchText) ==
    UNION { { SubSeq(w, 1, i) : i \in 2..Len(w) } : w \in Range(SplitWords(searchText)) }

\* words of one searchText that are indexed
IndexedWords(searchText) == { w \in Range(SplitWords(searchText)) : Len(w) >= 2 }

\* a buildSearchStructures that files an item under its index in the raw
\* payload instead of its position in normalizedData
buildSearchStructures_rawIndex(nd) ==
    LET words == UNION { IndexedWords(nd[p].searchText) : p \in DOMAIN nd }
    IN  [w \in words |->
            { nd[p].index + 1 : p \in { q \in DOMAIN nd : w \in IndexedWords(nd[q].searchText) } }]

\* buildSearchStructures: word -> set of positions of normalizedData holding
\* it.  Positions are 1-based here (position p stands for array index p-1).
buildSearchStructures(nd) ==
    LET words == UNION { IndexedWords(nd[p].searchText) : p \in DOMAIN nd }
    IN  [w \in words |-> { p \in DOMAIN nd : w \in IndexedWords(nd[p].searchText) }]

\* the option values of the rubro select after updateRubroFilter; the first
\* option (all rubros) has the empty value
RubroOptions(rubroSet) == {<<>>} \cup { r \in rubroSet : r # <<>> /\ Trim(r) # <<>> }

----------------------------------------------------------------------------
(* Search: findRelevantProducts, calculateProductScores, performSearch     *)

\* an index lookup that lets a word no item holds match every indexed item
IndexGet_absentMatchesAll(idx, w) ==
    IF w \in DOMAIN idx THEN idx[w] ELSE UNION { idx[v] : v \in DOMAIN idx }

\* this.state.searchIndex.get(word) || new Set()
IndexGet(idx, w) == IF w \in DOMAIN idx THEN idx[w] ELSE {}

\* the intersection built by the forEach over the query words
RECURSIVE IntersectFrom(_, _, _, _)
IntersectFrom(idx, words, i, acc) ==
    IF i > Len(words) THEN acc
    ELSE IntersectFrom(idx, words, i + 1,
                       IF i = 1 THEN IndexGet(idx, words[i])
                       ELSE { p \in acc : p \in IndexGet(idx, words[i]) })

\* a findRelevantProducts that takes the items holding any of the query words
findRelevantProducts_anyWord(term, idx) ==
    IF term = <<>> THEN <<>>
    ELSE LET words == SearchWords(term)
         IN  AscendingSeq(UNION { IndexGet(idx, words[i]) : i \in DOMAIN words })

\* findRelevantProducts: the candidate positions in the iteration order of the
\* Set, which is ascending because the index is filled in catalog order
findRelevantProducts(term, idx) ==
    IF term = <<>> THEN <<>>
    ELSE LET words == SearchWords(term)
         IN  IF words = <<>> THEN <<>>
             ELSE AscendingSeq(IntersectFrom(idx, words, 1, {}))

\* searchText.match(/\bword\b/g): searchText holds only [a-z0-9] words
\* separated by single spaces, so the matches are the words equal to word
WholeWordMatches(searchText, w) ==
    Cardinality({ i \in DOMAIN SplitWords(searchText) : SplitWords(searchText)[i] = w })

\* the points one query word adds to one candidate
WordScore(n, w) ==
    (IF n.codigoNormalized = w THEN CODIGO_EXACTO
     ELSE IF StartsWith(n.codigoNormalized, w) THEN CODIGO_STARTS_WITH
     ELSE IF Includes(n.codigoNormalized, w) THEN CODIGO_CONTAINS
     ELSE 0)
  + (IF ArrayIncludes(SplitWords(n.descripcionNormalized), w) THEN DESCRIPCION_PALABRA
     ELSE IF Includes(n.descripcionNormalized, w) THEN DESCRIPCION_CONTAINS
     ELSE 0)
  + (IF n.marcaNormalized = w THEN MARCA_EXACTA
     ELSE IF Includes(n.marcaNormalized, w) THEN MARCA_CONTAINS
     ELSE 0)
  + (IF n.rubroNormalized = w THEN RUBRO_EXACTO ELSE 0)
  + WholeWordMatches(n.searchText, w) * MULTIPLE_MATCHES

\* the rubro veto at the end of the map callback
RubroVeto(product, rubro) == rubro # <<>> /\ product.rubro # rubro

\* the score of one candidate, before the division by 100
ScoreOf(product, n, words, rubro) ==
    IF RubroVeto(product, rubro) THEN 0
    ELSE SumSeq([i \in DOMAIN words |-> WordScore(n, words[i])])

\* calculateProductScores: one entry per candidate, in candidate order
calculateProductScores(cands, term, rubro, prods, nd) ==
    IF term = <<>> \/ cands = <<>> THEN <<>>
    ELSE LET words == SearchWords(term)
         IN  [i \in DOMAIN cands |->
                 [index |-> cands[i],
                  score |-> ScoreOf(prods[cands[i]], nd[cands[i]], words, rubro)]]

\* Array.prototype.sort with the comparator (a, b) => k(a) - k(b), which is
\* stable: s[i] lands after the elements with a smaller key and after the
\* earlier elements with the same key.  k[i] is the key of s[i].
StableSortByKey(s, k) ==
    [r \in DOMAIN s |->
        s[CHOOSE i \in DOMAIN s :
            Cardinality({ j \in DOMAIN s : k[j] < k[i] \/ (k[j] = k[i] /\ j < i) }) = r - 1]]

\* Array.prototype.slice(start, end) with 0-based bounds
Slice(s, start, end) == SubSeq(s, start + 1, Min(end, Len(s)))

\* a ranking that keeps the last MAX_RESULTS entries of the sorted list
RankResults_keepsTail(scored) ==
    LET kept == SelectSeq(scored, LAMBDA r : r.score >= MIN_SCORE)
        sorted == StableSortByKey(kept, [i \in DOMAIN kept |-> 0 - kept[i].score])
    IN  SubSeq(sorted, IF Len(sorted) > MAX_RESULTS THEN Len(sorted) - MAX_RESULTS + 1 ELSE 1,
               Len(sorted))

\* a ranking whose sort puts the later of two equal scores first
RankResults_tiesReversed(scored) ==
    LET kept == SelectSeq(scored, LAMBDA r : r.score >= MIN_SCORE)
        back == [i \in DOMAIN kept |-> kept[Len(kept) + 1 - i]]
    IN  Slice(StableSortByKey(back, [i \in DOMAIN back |-> 0 - back[i].score]),
              0, MAX_RESULTS)

\* filter on MIN_SCORE, sort by descending score, slice to MAX_RESULTS
RankResults(scored) ==
    LET kept == SelectSeq(scored, LAMBDA r : r.score >= MIN_SCORE)
    IN  Slice(StableSortByKey(kept, [i \in DOMAIN kept |-> 0 - kept[i].score]),
              0, MAX_RESULTS)

\* the result list a cache miss computes
ComputeResults(term, rubro, prods, nd, idx) ==
    RankResults(calculateProductScores(findRelevantProducts(term, idx), term, rubro, prods, nd))

getCacheKey(term, rubro) == term \o <<"-">> \o rubro

\* the cache is a Map: its entries in insertion order.  list is the stored
\* array; orig is a history field, the contents of list when it was stored.
CacheHas(cache, key) == \E i \in DOMAIN cache : cache[i].key = key

CacheGet(cache, key) == cache[CHOOSE i \in DOMAIN cache : cache[i].key = key].list

\* a cacheSearchResults that deletes the latest inserted key at capacity
cacheSearchResults_evictsNewest(cache, key, res) ==
    LET kept == IF Len(cache) >= CACHE_SIZE THEN SubSeq(cache, 1, Len(cache) - 1) ELSE cache
    IN  Append(kept, [key |-> key, list |-> res, orig |-> res])

\* cacheSearchResults: delete keys().next().value at capacity, then set
cacheSearchResults(cache, key, res) ==
    LET kept == IF Len(cache) >= CACHE_SIZE THEN Tail(cache) ELSE cache
    IN  Append(kept, [key |-> key, list |-> res, orig |-> res])

\* performSearch: the new result list and cache; hit tells which path ran.
\* fresh is the list the miss path computes.
performSearch(term, rubro, cache, fresh) ==
    LET key == getCacheKey(term, rubro)
    IN  IF CacheHas(cache, key)
        THEN [results |-> CacheGet(cache, key), cache |-> cache, hit |-> TRUE]
        ELSE [results |-> fresh, cache |-> cacheSearchResults(cache, key, fresh),
              hit |-> FALSE]

\* a sortResults whose relevance mode leaves the list as it is
sortResults_relevanceKeepsOrder(res, sortType, prods) ==
    IF res = <<>> THEN res
    ELSE CASE sortType = "price_asc" ->
                StableSortByKey(res, [i \in DOMAIN res |-> prods[res[i].index].precio_venta])
           [] sortType = "price_desc" ->
                StableSortByKey(res, [i \in DOMAIN res |-> 0 - prods[res[i].index].precio_venta])
           [] OTHER -> res

\* sortResults: in-place sort of state.results
sortResults(res, sortType, prods) ==
    IF res = <<>> THEN res
    ELSE CASE sortType = "price_asc" ->
                StableSortByKey(res, [i \in DOMAIN res |-> prods[res[i].index].precio_venta])
           [] sortType = "price_desc" ->
                StableSortByKey(res, [i \in DOMAIN res |-> 0 - prods[res[i].index].precio_venta])
           [] OTHER ->
                StableSortByKey(res, [i \in DOMAIN res |-> 0 - res[i].score])

----------------------------------------------------------------------------
(* Rendering: renderResults and renderProductBatch                         *)

\* a renderProductBatch whose end is not clamped to the length of the list
renderProductBatch_noClamp(res, win) ==
    IF res = <<>> THEN win
    ELSE LET start == win.offset
             end == start + BATCH_SIZE
             batch == Slice(res, start, end)
         IN  [offset |-> end,
              hasMore |-> end < Len(res),
              container |-> win.container \o [i \in DOMAIN batch |-> batch[i].index],
              pages |-> Append(win.pages, Len(batch)),
              view |-> win.view]

\* renderProductBatch on a window [offset, hasMore, container, pages];
\* pages is a history field, the sizes of the batches appended since the
\* last renderResults
renderProductBatch(res, win) ==
    IF res = <<>> THEN win
    ELSE LET start == win.offset
             end == Min(start + BATCH_SIZE, Len(res))
             batch == Slice(res, start, end)
         IN  [offset |-> end,
              hasMore |-> end < Len(res),
              container |-> win.container \o [i \in DOMAIN batch |-> batch[i].index],
              pages |-> Append(win.pages, Len(batch)),
              view |-> win.view]

\* renderResults: reset the window, empty the container, show the first batch
renderResults(res) ==
    LET reset == [offset |-> 0, hasMore |-> Len(res) > BATCH_SIZE,
                  container |-> <<>>, pages |-> <<>>, view |-> "noResults"]
    IN  IF res = <<>> THEN reset
        ELSE renderProductBatch(res, [reset EXCEPT !.view = "results"])

\* The card nodes [pool, shown, made]: this.nodePool, the children of
\* refs.productsContainer as nodes, and how many nodes were created.  A
\* node has no name in the program; between events it is named by the place
\* of its first occurrence in pool \o shown, a new node by made + 1.

\* the card nodes renamed by place of first occurrence
NamedByPlace(cn) ==
    LET all == cn.pool \o cn.shown
        first(n) == CHOOSE i \in DOMAIN all :
                        all[i] = n /\ \A j \in 1..(i - 1) : all[j] # n
        name(n) == Cardinality({all[j] : j \in 1..first(n)})
    IN  [pool |-> [i \in DOMAIN cn.pool |-> name(cn.pool[i])],
         shown |-> [i \in DOMAIN cn.shown |-> name(cn.shown[i])],
         made |-> cn.made]

\* a createProductCard that reads the last node of the pool and leaves it there
createProductCard_noPop(cn) ==
    IF cn.pool = <<>>
    THEN [pool |-> <<>>, made |-> cn.made + 1, node |-> cn.made + 1]
    ELSE [pool |-> cn.pool, made |-> cn.made, node |-> cn.pool[Len(cn.pool)]]

\* createProductCard: nodePool.pop(), and a new node when the pool gave none
createProductCard(cn) ==
    IF cn.pool = <<>>
    THEN [pool |-> <<>>, made |-> cn.made + 1, node |-> cn.made + 1]
    ELSE [pool |-> SubSeq(cn.pool, 1, Len(cn.pool) - 1), made |-> cn.made,
          node |-> cn.pool[Len(cn.pool)]]

\* clearProductsContainer: every child, first to last, is removed from the
\* container and pushed on the pool
clearProductsContainer(cn) ==
    [cn EXCEPT !.pool = @ \o cn.shown, !.shown = <<>>]

\* the forEach of renderProductBatch over a batch of n results and the
\* appendChild of its fragment
RECURSIVE batchCards(_, _)
batchCards(cn, n) ==
    IF n = 0 THEN cn
    ELSE LET got == createProductCard(cn)
         IN  batchCards([pool |-> got.pool, shown |-> Append(cn.shown, got.node),
                         made |-> got.made], n - 1)

\* the nodes setupInitialUI creates for the pool (10 in the source)
PrefillNodes == 5

\* nodes created after which the online event is no longer taken
MaxNodes == 7

\* setupInitialUI: the new nodes are pushed on the pool
setupInitialUI(cn) ==
    [cn EXCEPT !.pool = @ \o [i \in 1..PrefillNodes |-> cn.made + i],
               !.made = @ + PrefillNodes]

\* the nodes after renderProductBatch
renderProductBatchCards(res, win, cn) ==
    NamedByPlace(batchCards(cn, Len(renderProductBatch(res, win).container)
                                - Len(win.container)))

\* the nodes after renderResults
renderResultsCards(res, cn) ==
    NamedByPlace(batchCards(clearProductsContainer(cn), Len(renderResults(res).container)))

----------------------------------------------------------------------------
(* Inputs: what the user types and what products.json holds                *)

TxtEmpty == <<>>

TxtBlank == <<" ">>

TxtAb == <<"a","b">>

TxtAbCd == <<"a","b","-","C","D">>

TxtZz == <<"z","z">>

TxtGh == <<"g","h">>

TxtAbZz == <<"a","b"," ","z","z">>

TxtEf == <<"e","f">>

TxtZzAb == <<"z","z"," ","a","b">>

\* the texts an input event carries
Texts == {TxtEmpty, TxtBlank, TxtAb, TxtAbCd, TxtZz}

\* texts with a word no item holds, before or after a word some item holds,
\* and a word only one description holds
QueryTexts == {TxtBlank, TxtAb, TxtGh, TxtZz, TxtAbZz, TxtZzAb}

SortTypes == {"relevance", "price_asc", "price_desc"}

RubroEf == Str(<<"E","F">>)

RubroCdEf == Str(<<"C","D","-","E","F">>)

MarcaMx == Str(<<"M","X">>)

\* seven records, the second without a price
PayloadMain ==
    << Raw(Str(<<"1","0">>), Str(<<"A","B"," ","C","D">>), RubroEf, MarcaMx, Num(30)),
       Raw(Str(<<"1","1">>), Str(<<"A","B">>), RubroEf, Undef, Undef),
       Raw(Str(<<"2","0">>), Str(<<"A","b">>), RubroCdEf, MarcaMx, Num(10)),
       Raw(Str(<<"A","B">>), Str(<<"t","u","b","o">>), RubroEf, Undef, Num(20)),
       Raw(Str(<<"3","0">>), Str(<<"a","b","c"," ","a","b">>), Undef, Str(<<"a","b">>),
           Str(<<"4","0">>)),
       Raw(Str(<<"a","b","1">>), Str(<<"Á","B">>), RubroEf, MarcaMx, Num(10)),
       Raw(Str(<<"4","0">>), Str(<<" ","a","b">>), RubroCdEf, Str(<<>>), Num(5)) >>

\* the empty array the service worker answers with when the network fails
PayloadEmpty == <<>>

\* a numeric codigo in the second record: normalizeText throws on it
PayloadBroken ==
    << Raw(Str(<<"1","0">>), Str(<<"A","B">>), RubroEf, MarcaMx, Num(30)),
       Raw(Num(77), Str(<<"A","B">>), RubroEf, MarcaMx, Num(30)) >>

RubroAbZ == Str(<<"A","B"," ","Z">>)

\* three records that differ for the query word "ab" only in how their codigo
\* holds it (equal, prefix, infix), and one whose descripcion alone holds "gh"
PayloadRank ==
    << Raw(Str(<<"X","A","B">>), Str(<<"t","u","b","o">>), RubroAbZ, MarcaMx, Num(10)),
       Raw(Str(<<"A","B","C">>), Str(<<"t","u","b","o">>), RubroAbZ, MarcaMx, Num(20)),
       Raw(Str(<<"A","B">>), Str(<<"t","u","b","o">>), RubroEf, MarcaMx, Num(30)),
       Raw(Str(<<"2","0">>), Str(<<"G","H">>), RubroEf, MarcaMx, Num(5)) >>

\* records that differ in precio_venta only: a positive number, a negative
\* number, a string that is not a number, and the number 0
PayloadPrices ==
    << Raw(Str(<<"1","0">>), Str(<<"A","B">>), RubroEf, MarcaMx, Num(30)),
       Raw(Str(<<"1","1">>), Str(<<"A","B">>), RubroEf, MarcaMx, Num(0 - 5)),
       Raw(Str(<<"1","2">>), Str(<<"A","B">>), RubroEf, MarcaMx, Str(<<"x">>)),
       Raw(Str(<<"1","3">>), Str(<<"A","B">>), RubroEf, MarcaMx, Num(0)) >>

\* products.json by name; "none" stands for the arrays before any load
PayloadOf ==
    [none |-> <<>>, main |-> PayloadMain, empty |-> PayloadEmpty, broken |-> PayloadBroken,
     rank |-> PayloadRank, prices |-> PayloadPrices, fallback |-> PayloadEmpty]

Payloads == {"main", "empty", "broken"}

\* what processProducts leaves in state.products, state.normalizedData and
\* state.rubros for each payload, and whether it threw.  (f @@ <<>> is f;
\* it makes TLC tabulate f once instead of evaluating its body at each use.)
Processed == [c \in DOMAIN PayloadOf |-> processProducts(PayloadOf[c])] @@ <<>>

\* the index buildSearchStructures fills; init skips it when the load threw
IndexOf ==
    [c \in DOMAIN PayloadOf |->
        IF Processed[c].threw \/ c = "none" THEN <<>>
        ELSE buildSearchStructures(Processed[c].normalizedData) @@ <<>>] @@ <<>>

\* the search terms and rubro values the inputs can produce
Terms == { Trim(t) : t \in Texts \cup QueryTexts \cup {TxtEf} }

\* the options updateRubroFilter leaves in the select, for each payload
OptionsOf == [c \in DOMAIN PayloadOf |-> RubroOptions(Processed[c].rubros)] @@ <<>>

RubroValues == UNION { OptionsOf[c] : c \in DOMAIN PayloadOf }

\* ComputeResults for every catalog, term and rubro.  (f @@ <<>> is f; it
\* makes TLC tabulate f once instead of evaluating its body at each use.)
Computed ==
    [c \in DOMAIN PayloadOf |->
        [q \in Terms \X RubroValues |->
            ComputeResults(q[1], q[2], Processed[c].products,
                           Processed[c].normalizedData, IndexOf[c])] @@ <<>>] @@ <<>>

----------------------------------------------------------------------------
(* OptimizedProductSearch: load and node pool                              *)

\* records processDataInBatches slices off per batch (1000 in the source)
batchSize == 2

\* processDataInBatches yields to the event loop when i % YieldEvery = 0
\* (every 5 batches in the source)
YieldEvery == 2

\* CONFIG.BATCH_SIZE of OptimizedProductSearch: cards per rendered batch (30)
OPS_BATCH_SIZE == 2

\* nodes prefillNodePool creates (10 in the source)
PoolPrefill == 1

\* longest nodePool.cards a render may start from
MaxPool == 6

\* normalizeString: '' for a falsy argument, else lower case, accents
\* stripped, characters outside [a-z0-9\s] blanked, white space collapsed
\* and trimmed
normalizeString(str) ==
    IF str = <<>> THEN <<>>
    ELSE Trim(CollapseSpaces(
            [i \in DOMAIN str |->
                LET c == StripAccentChar(ToLowerChar(str[i]))
                IN  IF IsAsciiLower(c) \/ IsDigit(c) \/ IsSpace(c) THEN c ELSE " "]))

\* normalizeProduct; searchable is normalizeString of the template literal
\* `${descripcion} ${codigo} ${marca} ${rubro}`
normalizeProduct(raw) ==
    [codigo |-> Trim(ToText(OrEmpty(raw.codigo))),
     descripcion |-> Trim(ToText(OrEmpty(raw.descripcion))),
     rubro |-> Trim(ToText(OrEmpty(raw.rubro))),
     marca |-> Trim(ToText(OrEmpty(raw.marca))),
     precio_venta |-> ToNumberOrZero(raw.precio_venta),
     searchable |-> normalizeString(
                        ToText(raw.descripcion) \o <<" ">> \o ToText(raw.codigo) \o <<" ">>
                            \o ToText(raw.marca) \o <<" ">> \o ToText(raw.rubro))]

\* data.slice(start, end) of batch i with the bounds shifted
BatchSlice_overlap(data, i) == Slice(data, i * batchSize, i * batchSize + batchSize + 1)

\* data.slice(start, end) of batch i
BatchSlice(data, i) == Slice(data, i * batchSize, i * batchSize + batchSize)

\* Math.ceil(data.length / batchSize)
TotalBatches(data) == (Len(data) + batchSize - 1) \div batchSize

\* processBatchSync: the batch's records normalized and pushed in order, up
\* to a null entry, on which normalizeProduct throws
RECURSIVE processBatchSync(_, _, _)
processBatchSync(prods, rubroSet, batch) ==
    IF batch = <<>> THEN [products |-> prods, rubros |-> rubroSet, threw |-> FALSE]
    ELSE IF Head(batch).isNull THEN [products |-> prods, rubros |-> rubroSet, threw |-> TRUE]
    ELSE LET normalized == normalizeProduct(Head(batch))
         IN  processBatchSync(Append(prods, normalized),
                              IF normalized.rubro # <<>>
                              THEN rubroSet \cup {normalized.rubro} ELSE rubroSet,
                              Tail(batch))

\* getSearchTokens: the words of two characters or more of the four fields,
\* and every prefix of such a word from length two on
getSearchTokens_wholeWords(product) ==
    LET fields == {product.descripcion, product.codigo, product.marca, product.rubro}
        words == UNION { Range(SplitWords(normalizeString(f))) : f \in fields \ {<<>>} }
    IN  { x \in words : Len(x) >= 2 }

\* getSearchTokens: every word of two characters or more of the four fields,
\* and every prefix of it of two characters or more
getSearchTokens(product) ==
    LET fields == {product.descripcion, product.codigo, product.marca, product.rubro}
        words == UNION { Range(SplitWords(normalizeString(f))) : f \in fields \ {<<>>} }
    IN  UNION { { SubSeq(w, 1, i) : i \in 2..Len(w) } : w \in { x \in words : Len(x) >= 2 } }

\* buildSearchIndex: token -> positions of the products that yield it
buildSearchIndex(prods) ==
    LET tokens == [p \in DOMAIN prods |-> getSearchTokens(prods[p])]
    IN  [t \in UNION Range(tokens) |-> { p \in DOMAIN prods : t \in tokens[p] }]

\* updateRubroFilter: the option values of the rubro select, '' first
OpsRubroOptions(rubroSet) == {<<>>} \cup { r \in rubroSet : Trim(r) # <<>> }

\* sortResults of OptimizedProductSearch: positions ordered by price, or
\* left as they are (comparator 0) for any other sortBy
OpsSortResults(filtered, sortBy, prods) ==
    CASE sortBy = "price_asc" ->
            StableSortByKey(filtered, [i \in DOMAIN filtered |-> prods[filtered[i]].precio_venta])
      [] sortBy = "price_desc" ->
            StableSortByKey(filtered,
                            [i \in DOMAIN filtered |-> 0 - prods[filtered[i]].precio_venta])
      [] OTHER -> filtered

\* CONFIG.CACHE_SIZE of OptimizedProductSearch (50 in the source)
OPS_CACHE_SIZE == 2

\* the words of a search term that performSearch looks up
OpsSearchWords(term) == SelectSeq(SplitWords(normalizeString(term)), LAMBDA w : Len(w) >= 2)

\* performSearch of OptimizedProductSearch: the new state.filtered (positions
\* in state.products) and the new cache; hit tells that the cached list was
\* taken.  The candidates come out of the Set in ascending position.
OpsPerformSearch(term, rubro, sortBy, prods, idx, cache) ==
    LET words == OpsSearchWords(term)
        key == term \o <<"-">> \o rubro \o <<"-", sortBy>>
    IN  IF words = <<>> THEN [filtered |-> <<>>, cache |-> cache, hit |-> FALSE]
        ELSE IF \E i \in DOMAIN cache : cache[i].key = key
        THEN [filtered |-> cache[CHOOSE i \in DOMAIN cache : cache[i].key = key].list,
              cache |-> cache, hit |-> TRUE]
        ELSE LET found == SelectSeq(AscendingSeq(IntersectFrom(idx, words, 1, {})),
                                    LAMBDA p : /\ ~(rubro # <<>> /\ prods[p].rubro # rubro)
                                               /\ prods[p].precio_venta > 0)
                 sorted == OpsSortResults(found, sortBy, prods)
                 kept == IF Len(cache) >= OPS_CACHE_SIZE THEN Tail(cache) ELSE cache
             IN  [filtered |-> sorted,
                  cache |-> Append(kept, [key |-> key, list |-> sorted]),
                  hit |-> FALSE]

\* prefillNodePool: PoolPrefill nodes created and pushed on nodePool.cards
prefillNodePool(st) ==
    [st EXCEPT !.cards = @ \o [i \in 1..PoolPrefill |-> st.nodes + i],
               !.shows = @ \o [i \in 1..PoolPrefill |-> 0],
               !.nodes = @ + PoolPrefill]

\* clearContainer: every child of the container is pushed on nodePool.cards,
\* currentIndex restarts at 0
clearContainer(st) ==
    [st EXCEPT !.cards = @ \o st.container,
               !.container = <<>>,
               !.currentIndex = 0,
               !.handed = <<>>]

\* getProductNode: the card at currentIndex when there is one, else a new
\* node; either way the node is updated to show the product
getProductNode(st, product) ==
    IF st.currentIndex < Len(st.cards)
    THEN LET node == st.cards[st.currentIndex + 1]
         IN  [st EXCEPT !.shows[node] = product,
                        !.currentIndex = @ + 1,
                        !.node = node,
                        !.handed = Append(@, node)]
    ELSE LET node == st.nodes + 1
         IN  [st EXCEPT !.nodes = node,
                        !.shows = Append(@, product),
                        !.node = node,
                        !.handed = Append(@, node)]

\* the forEach of renderNextBatch over filtered[k..end].  fragment.appendChild
\* takes the node out of the parent it has (the container, or the fragment
\* itself) and makes it the last child of the fragment.
RECURSIVE FillFragment(_, _, _, _)
FillFragment(st, filtered, k, end) ==
    IF k > end THEN st
    ELSE LET got == getProductNode(st, filtered[k])
             moved == [got EXCEPT
                          !.container = SelectSeq(@, LAMBDA n : n # got.node),
                          !.fragment = Append(SelectSeq(@, LAMBDA n : n # got.node), got.node)]
         IN  FillFragment(moved, filtered, k + 1, end)

renderNextBatch(st, filtered) ==
    LET end == Min(st.offset + OPS_BATCH_SIZE, Len(filtered))
        filled == FillFragment([st EXCEPT !.fragment = <<>>], filtered, st.offset + 1, end)
    IN  [filled EXCEPT !.container = @ \o filled.fragment,
                       !.fragment = <<>>,
                       !.offset = end,
                       !.hasMore = end < Len(filtered)]

\* renderResults of OptimizedProductSearch
OpsRenderResults(st, filtered) ==
    LET cleared == clearContainer([st EXCEPT !.offset = 0,
                                             !.hasMore = Len(filtered) > OPS_BATCH_SIZE])
    IN  IF filtered = <<>>
        THEN [cleared EXCEPT !.view = "noResults"]
        ELSE renderNextBatch([cleared EXCEPT !.view = "grid"], filtered)

\* four records with a null entry in the second batch
PayloadNullEntry ==
    << Raw(Str(<<"1","0">>), Str(<<"A","B">>), RubroEf, MarcaMx, Num(30)),
       Raw(Str(<<"2","0">>), Str(<<"C","D">>), RubroEf, MarcaMx, Num(10)),
       NullRaw,
       Raw(Str(<<"3","0">>), Str(<<"E","F">>), RubroEf, MarcaMx, Num(20)) >>

\* the JSON documents response.json() may give, by name: an array of
\* records, or a value that is not an array ("none" stands for no document)
OpsPayloadOf ==
    [none |-> [kind |-> "array", items |-> <<>>],
     main |-> [kind |-> "array", items |-> PayloadMain],
     empty |-> [kind |-> "array", items |-> <<>>],
     nullEntry |-> [kind |-> "array", items |-> PayloadNullEntry],
     object |-> [kind |-> "object", items |-> <<>>],
     number |-> [kind |-> "number", items |-> <<>>],
     null |-> [kind |-> "null", items |-> <<>>]]

OpsPayloads == DOMAIN OpsPayloadOf \ {"none"}

\* every record of a payload normalized, in the payload's order
OpsNormalized ==
    [c \in DOMAIN OpsPayloadOf |->
        [i \in DOMAIN OpsPayloadOf[c].items |->
            IF OpsPayloadOf[c].items[i].isNull THEN <<>>
            ELSE normalizeProduct(OpsPayloadOf[c].items[i])]] @@ <<>>

----------------------------------------------------------------------------
(* State                                                                   *)

VARIABLES
    phase,          \* "loading" until loadProducts settles, then "loaded" or "error"
    catalog,        \* name of the payload processProducts has consumed, "none" before
    searchTerm,     \* state.searchTerm
    currentRubro,   \* state.currentRubro
    results,        \* state.results
    shared,         \* key of the cache entry whose array state.results is, or NoKey
    offset,         \* state.offset
    hasMore,        \* state.hasMore
    isLoading,      \* state.isLoading
    searchCache,    \* this.searchCache
    debounceLive,   \* this.debounceTimer names a timer that has not fired
    timersPending,  \* debounce timers set and neither cleared nor fired
    rafPending,     \* animation-frame callbacks requested and not yet run
    container,      \* children of refs.productsContainer: the catalog position each card shows
    view,           \* which of the state panels / the grid is displayed
    sortMode,       \* value of the sortFilter select
    clearBtnShown,  \* refs.clearBtn is displayed
    pages,          \* history: sizes of the batches rendered since the last renderResults
    inserted,       \* history: keys now cached, in the order they were inserted
    hitEvicted,     \* history: the last search evicted the key its predecessor had hit
    burstText,      \* history: text of the latest input event of the burst the pending timer belongs to
    coalesced,      \* history: an input event of the latest burst replaced a pending timer
    cardNodes       \* this.nodePool and the nodes of the container: [pool, shown, made]

\* FerreteriaSearchSystem
searchVars == <<phase, catalog, searchTerm, currentRubro,
                results, shared, offset, hasMore, isLoading, searchCache, debounceLive,
                timersPending, rafPending, container, view, sortMode, clearBtnShown,
                pages, inserted, hitEvicted, burstText, coalesced, cardNodes>>

\* OptimizedProductSearch
VARIABLES
    opsPhase,        \* where init/loadData stands: "fetching", "batch" (an idle callback
                     \* is scheduled), "yield" (the yield timer is set), "hung" (the
                     \* awaited promise never settles), "loaded", "error"
    opsData,         \* name of the document response.json() gave, "none" before
    opsBatch,        \* i of the loop of processDataInBatches
    opsProducts,     \* state.products
    opsRubros,       \* state.rubros
    opsSearchIndex,  \* state.searchIndex
    opsRubroSelect,  \* option values of the rubroFilter select
    opsCurrentRubro, \* state.currentRubro
    opsSortBy,       \* state.sortBy
    opsSearchTerm,   \* state.searchTerm
    opsSearchCache,  \* this.searchCache: its entries in insertion order
    opsFiltered,     \* state.filtered, as positions in state.products
    opsOffset,       \* state.offset
    opsHasMore,      \* state.hasMore
    opsLoading,      \* state.loading
    nodePool,        \* this.nodePool: cards and currentIndex
    opsContainer,    \* children of refs.productsContainer, as node identities
    opsNodes,        \* number of card nodes created so far
    opsShows,        \* per node, the position of the product it was last updated with
    opsView,         \* which of the state panels / the grid is displayed
    opsHanded,       \* history: nodes getProductNode returned since the last clearContainer
    opsInterleaved   \* history: a filter change was handled while batches were pending

opsLoadVars == <<opsPhase, opsData, opsBatch, opsProducts, opsRubros, opsSearchIndex,
                 opsRubroSelect>>

opsRenderVars == <<nodePool, opsContainer, opsNodes, opsShows, opsView, opsHanded,
                   opsOffset, opsHasMore>>

opsVars == <<opsLoadVars, opsCurrentRubro, opsSortBy, opsSearchTerm, opsSearchCache,
             opsFiltered, opsLoading,
             opsRenderVars, opsInterleaved>>

\* ProductSearchSystem (src/app.js): phase of init, this.products and
\* this.filteredProducts as record numbers of PssPayload, shared (both are
\* the same array), currentSearch, currentRubro and currentSort
VARIABLES pss

vars == <<searchVars, opsVars, pss>>

\* the arrays and the index the state holds, read off the consumed payload
products == Processed[catalog].products

normalizedData == Processed[catalog].normalizedData

rubros == Processed[catalog].rubros

searchIndex == IndexOf[catalog]

\* the option values of the rubro select
rubroOptions == OptionsOf[catalog]

windowVars == <<offset, hasMore, container, pages, view>>

timerVars == <<debounceLive, timersPending>>

NoKey == <<"(none)">>

NoText == <<"(none)">>

Window == [offset |-> offset, hasMore |-> hasMore, container |-> container,
           pages |-> pages, view |-> view]

SetWindow(w) ==
    /\ offset' = w.offset
    /\ hasMore' = w.hasMore
    /\ container' = w.container
    /\ pages' = w.pages
    /\ view' = w.view

CacheKeys(cache) == [i \in DOMAIN cache |-> cache[i].key]

Init ==
    /\ pss = [phase |-> "loading", products |-> <<>>, filteredProducts |-> <<>>,
              shared |-> FALSE, currentSearch |-> <<>>, currentRubro |-> <<>>,
              currentSort |-> "descripcion"]
    /\ phase = "loading"
    /\ cardNodes = [pool |-> <<>>, shown |-> <<>>, made |-> 0]
    /\ catalog = "none"
    /\ searchTerm = <<>>
    /\ currentRubro = <<>>
    /\ results = <<>>
    /\ shared = NoKey
    /\ offset = 0
    /\ hasMore = FALSE
    /\ isLoading = FALSE
    /\ searchCache = <<>>
    /\ debounceLive = FALSE
    /\ timersPending = 0
    /\ rafPending = 0
    /\ container = <<>>
    /\ view = "loading"
    /\ sortMode = "relevance"
    /\ clearBtnShown = FALSE
    /\ pages = <<>>
    /\ inserted = <<>>
    /\ hitEvicted = FALSE
    /\ burstText = NoText
    /\ coalesced = FALSE
    /\ opsPhase = "fetching"
    /\ opsData = "none"
    /\ opsBatch = 0
    /\ opsProducts = <<>>
    /\ opsRubros = {}
    /\ opsSearchIndex = <<>>
    /\ opsRubroSelect = {<<>>}
    /\ opsCurrentRubro = <<>>
    /\ opsSortBy = "relevance"
    /\ opsSearchTerm = <<>>
    /\ opsSearchCache = <<>>
    /\ opsFiltered = <<>>
    /\ opsOffset = 0
    /\ opsHasMore = FALSE
    /\ opsLoading = FALSE
    /\ nodePool = [cards |-> <<>>, currentIndex |-> 0]
    /\ opsContainer = <<>>
    /\ opsNodes = 0
    /\ opsShows = <<>>
    /\ opsView = "loading"
    /\ opsHanded = <<>>
    /\ opsInterleaved = FALSE

----------------------------------------------------------------------------
(* Operations                                                              *)

\* init after the fetch: loadProducts -> processProducts, then
\* buildSearchStructures and setupInitialUI run without an event in between.
\* A throw in processProducts leaves what it had pushed and skips the rest.
LoadOk(payload) ==
    /\ phase = "loading"
    /\ ~Processed[payload].threw
    /\ catalog' = payload
    /\ phase' = "loaded"
    /\ view' = "empty"
    /\ cardNodes' = setupInitialUI(cardNodes)
    /\ UNCHANGED <<opsVars, pss, searchTerm, currentRubro, results, shared, offset, hasMore, isLoading,
                   searchCache, timerVars, rafPending, container, sortMode, clearBtnShown,
                   pages, inserted, hitEvicted, burstText, coalesced>>

LoadThrows(payload) ==
    /\ phase = "loading"
    /\ Processed[payload].threw
    /\ catalog' = payload
    /\ phase' = "error"
    /\ view' = "error"
    /\ container' = <<>>
    /\ cardNodes' = [cardNodes EXCEPT !.shown = <<>>]
    /\ UNCHANGED <<opsVars, pss, searchTerm, currentRubro, results, shared, offset, hasMore,
                   isLoading, searchCache, timerVars, rafPending, sortMode, clearBtnShown,
                   pages, inserted, hitEvicted, burstText, coalesced>>

\* what the network does with the request for products.json
NetworkOutcomes == {"ok", "status", "error"}

\* the fetch listener of the service worker for products.json: the cached
\* response when there is one, else the network's response whatever its
\* status, else (fetch rejected) a new Response of '[]', whose status is 200.
\* The value names the document loadProducts receives, "status" standing
\* for a response that is not ok.
SwRespond(cached, net) ==
    IF cached THEN "main"
    ELSE CASE net = "ok" -> "main"
           [] net = "status" -> "status"
           [] OTHER -> "fallback"

\* the fetch is rejected or answers with a status that is not ok
LoadFetchFails ==
    /\ phase = "loading"
    /\ phase' = "error"
    /\ view' = "error"
    /\ container' = <<>>
    /\ cardNodes' = [cardNodes EXCEPT !.shown = <<>>]
    /\ UNCHANGED <<opsVars, pss, catalog, searchTerm, currentRubro, results, shared, offset, hasMore,
                   isLoading, searchCache, timerVars, rafPending, sortMode, clearBtnShown,
                   pages, inserted, hitEvicted, burstText, coalesced>>

\* loadProducts when the service worker answers the fetch
FetchThroughWorker(cached, net) ==
    IF SwRespond(cached, net) = "status" THEN LoadFetchFails
    ELSE LoadOk(SwRespond(cached, net))

\* performSearch followed by its renderResults
Search(term, rubro) ==
    LET r == performSearch(term, rubro, searchCache, Computed[catalog][<<term, rubro>>])
        key == getCacheKey(term, rubro)
        gone == { k \in Range(CacheKeys(searchCache)) : k \notin Range(CacheKeys(r.cache)) }
    IN  /\ results' = r.results
        /\ searchCache' = r.cache
        /\ shared' = IF r.hit THEN key ELSE NoKey
        /\ SetWindow(renderResults(r.results))
        /\ cardNodes' = renderResultsCards(r.results, cardNodes)
        /\ inserted' = IF r.hit THEN inserted
                       ELSE Append(SelectSeq(inserted, LAMBDA k : k \notin gone), key)
        /\ hitEvicted' = (shared \in gone)

\* setTimeout without the clearTimeout before it
debounceArm_noClear(live, pending) == pending + 1

\* clearTimeout(this.debounceTimer) then setTimeout: the timers pending after
debounceArm(live, pending) == (IF live THEN pending - 1 ELSE pending) + 1

\* the input listener: handleSearchInput(text)
Input(text) ==
    /\ phase # "error"
    /\ searchTerm' = Trim(text)
    /\ clearBtnShown' = (text # <<>>)
    /\ IF text = <<>>
       THEN /\ view' = "empty"
            /\ burstText' = NoText
            /\ UNCHANGED <<timerVars, coalesced>>
       ELSE /\ timersPending' = debounceArm(debounceLive, timersPending)
            /\ debounceLive' = TRUE
            /\ burstText' = text
            /\ coalesced' = (timersPending > 0 /\ burstText # NoText)
            /\ view' = view
    /\ UNCHANGED <<opsVars, pss, cardNodes, phase, catalog, currentRubro, results, shared, offset, hasMore,
                   isLoading, searchCache, rafPending, container, sortMode, pages, inserted,
                   hitEvicted>>

\* the debounce timer fires: performSearch().  Timers of equal delay fire in
\* the order they were set, so the one debounceTimer names fires last.
TimerFire ==
    /\ timersPending > 0
    /\ timersPending' = timersPending - 1
    /\ debounceLive' = (debounceLive /\ timersPending > 1)
    /\ Search(searchTerm, currentRubro)
    /\ burstText' = NoText
    /\ UNCHANGED <<opsVars, pss, phase, catalog, searchTerm, currentRubro, isLoading, rafPending,
                   sortMode, clearBtnShown, coalesced>>

\* the rubroFilter change listener
RubroChange(r) ==
    /\ phase # "error"
    /\ r \in rubroOptions
    /\ r # currentRubro
    /\ currentRubro' = r
    /\ Search(searchTerm, r)
    /\ UNCHANGED <<opsVars, pss, phase, catalog, searchTerm, isLoading, timerVars, rafPending,
                   sortMode, clearBtnShown, burstText, coalesced>>

\* the sortFilter change listener: sortResults(type) then renderResults().
\* The sort is in place, so it also reorders the cached array when
\* state.results is that array.
SortChange(sortType) ==
    /\ phase # "error"
    /\ sortType # sortMode
    /\ sortMode' = sortType
    /\ LET sorted == sortResults(results, sortType, products)
       IN  /\ results' = sorted
           /\ searchCache' = [i \in DOMAIN searchCache |->
                                 IF searchCache[i].key = shared
                                 THEN [searchCache[i] EXCEPT !.list = sorted]
                                 ELSE searchCache[i]]
           /\ SetWindow(renderResults(sorted))
           /\ cardNodes' = renderResultsCards(sorted, cardNodes)
    /\ UNCHANGED <<opsVars, pss, phase, catalog, searchTerm, currentRubro, shared, isLoading,
                   timerVars, rafPending, clearBtnShown, inserted, hitEvicted, burstText,
                   coalesced>>

\* a handleScroll that does not look at isLoading
handleScroll_noGuard ==
    IF ~hasMore
    THEN UNCHANGED <<isLoading, rafPending>>
    ELSE /\ isLoading' = TRUE
         /\ rafPending' = rafPending + 1

\* handleScroll near the bottom of the viewport
handleScroll ==
    IF ~hasMore \/ isLoading
    THEN UNCHANGED <<isLoading, rafPending>>
    ELSE /\ isLoading' = TRUE
         /\ rafPending' = rafPending + 1

Scroll ==
    /\ phase # "error"
    /\ handleScroll
    /\ UNCHANGED <<opsVars, pss, cardNodes, phase, catalog, searchTerm, currentRubro, results, shared,
                   windowVars, searchCache, timerVars, sortMode, clearBtnShown,
                   inserted, hitEvicted, burstText, coalesced>>

\* the animation-frame callback of handleScroll
RafCallback ==
    /\ rafPending > 0
    /\ rafPending' = rafPending - 1
    /\ SetWindow(renderProductBatch(results, Window))
    /\ isLoading' = FALSE
    /\ cardNodes' = renderProductBatchCards(results, Window, cardNodes)
    /\ UNCHANGED <<opsVars, pss, phase, catalog, searchTerm, currentRubro, results, shared,
                   searchCache, timerVars, sortMode, clearBtnShown, inserted, hitEvicted,
                   burstText, coalesced>>

\* clearSearch; the pending debounce timer is not cleared
clearSearch ==
    /\ searchTerm' = <<>>
    /\ currentRubro' = <<>>
    /\ results' = <<>>
    /\ shared' = NoKey
    /\ clearBtnShown' = FALSE
    /\ view' = "empty"
    /\ burstText' = NoText
    /\ UNCHANGED <<opsVars, pss, cardNodes, phase, catalog, offset, hasMore, isLoading, searchCache, timerVars,
                   rafPending, container, sortMode, pages, inserted, hitEvicted, coalesced>>

\* click on the clear button, which is displayed while the box holds text
ClearClick ==
    /\ phase # "error"
    /\ clearBtnShown
    /\ clearSearch

\* click on the reset button: resetSearch is clearSearch and showEmptyState
ResetClick ==
    /\ phase # "error"
    /\ clearSearch

\* the online listener of the window: innerHTML = '' drops the children of
\* the container without pooling them, then showEmptyState
Online ==
    /\ cardNodes.made < MaxNodes
    /\ container' = <<>>
    /\ view' = "empty"
    /\ cardNodes' = NamedByPlace([cardNodes EXCEPT !.shown = <<>>])
    /\ UNCHANGED <<opsVars, pss, phase, catalog, searchTerm, currentRubro, results, shared,
                   offset, hasMore, isLoading, searchCache, timerVars, rafPending, sortMode,
                   clearBtnShown, pages, inserted, hitEvicted, burstText, coalesced>>

----------------------------------------------------------------------------
(* Operations of OptimizedProductSearch                                    *)

\* the fields the rendering functions read and write
OpsRender ==
    [cards |-> nodePool.cards, currentIndex |-> nodePool.currentIndex,
     container |-> opsContainer, fragment |-> <<>>, nodes |-> opsNodes,
     shows |-> opsShows, handed |-> opsHanded, node |-> 0,
     offset |-> opsOffset, hasMore |-> opsHasMore, view |-> opsView]

OpsSetRender(st) ==
    /\ nodePool' = [cards |-> st.cards, currentIndex |-> st.currentIndex]
    /\ opsContainer' = st.container
    /\ opsNodes' = st.nodes
    /\ opsShows' = st.shows
    /\ opsHanded' = st.handed
    /\ opsOffset' = st.offset
    /\ opsHasMore' = st.hasMore
    /\ opsView' = st.view

\* setupInitialState, entered with the panel loadData left displayed: the
\* pool is prefilled and, when the search term is empty and there are
\* products, the first OPS_BATCH_SIZE products are rendered
setupInitialState(prods, shown) ==
    LET pooled == prefillNodePool(shown)
        first == [i \in 1..Min(OPS_BATCH_SIZE, Len(prods)) |-> i]
    IN  IF opsSearchTerm = <<>> /\ prods # <<>>
        THEN /\ opsFiltered' = first
             /\ OpsSetRender(OpsRenderResults(pooled, first))
        ELSE /\ opsFiltered' = opsFiltered
             /\ OpsSetRender(pooled)

\* the rest of loadData once processDataInBatches has returned, and
\* setupInitialState, which init runs next
LoadCompletes(prods, rubroSet) ==
    /\ opsPhase' = "loaded"
    /\ opsSearchIndex' = buildSearchIndex(prods)
    /\ opsRubroSelect' = OpsRubroOptions(rubroSet)
    /\ setupInitialState(prods, [OpsRender EXCEPT !.view = "empty"])

\* the catch of loadData: showError, whose error-state markup becomes the
\* container's only child (node 0), then setupInitialState
LoadFails(prods) ==
    /\ opsPhase' = "error"
    /\ UNCHANGED <<opsSearchIndex, opsRubroSelect>>
    /\ setupInitialState(prods, [OpsRender EXCEPT !.view = "error",
                                                  !.container = <<0>>])

\* await processBatch(batch) of the next batch: an idle callback is scheduled
ScheduleBatch(i) ==
    /\ opsPhase' = "batch"
    /\ opsBatch' = i
    /\ UNCHANGED <<opsSearchIndex, opsRubroSelect, opsFiltered, opsRenderVars>>

\* the fetch answers ok and response.json() gives the document d.  data.length
\* throws on null and is a number for an array only: for any other value
\* totalBatches is NaN, i < NaN is false and the loop does not run.
OpsFetchOk(d) ==
    /\ opsPhase = "fetching"
    /\ opsData' = d
    /\ IF OpsPayloadOf[d].kind = "null"
       THEN LoadFails(opsProducts) /\ opsBatch' = opsBatch
       ELSE IF OpsPayloadOf[d].kind = "array" /\ TotalBatches(OpsPayloadOf[d].items) > 0
            THEN ScheduleBatch(0)
            ELSE LoadCompletes(opsProducts, opsRubros) /\ opsBatch' = opsBatch
    /\ UNCHANGED <<opsProducts, opsRubros, opsCurrentRubro, opsSortBy, opsLoading,
                   opsInterleaved, opsSearchTerm,
                   opsSearchCache>>
    /\ UNCHANGED <<searchVars, pss>>

\* the fetch is rejected or answers with a status that is not ok
OpsFetchFails ==
    /\ opsPhase = "fetching"
    /\ LoadFails(opsProducts)
    /\ UNCHANGED <<opsData, opsBatch, opsProducts, opsRubros, opsCurrentRubro, opsSortBy,
                   opsLoading, opsInterleaved, opsSearchTerm,
                   opsSearchCache>>
    /\ UNCHANGED <<searchVars, pss>>

\* the loop of processDataInBatches after batch opsBatch (and its yield)
NextIteration(prods, rubroSet) ==
    IF opsBatch + 1 < TotalBatches(OpsPayloadOf[opsData].items)
    THEN ScheduleBatch(opsBatch + 1)
    ELSE LoadCompletes(prods, rubroSet) /\ opsBatch' = opsBatch + 1

\* the idle callback of processBatch: processBatchSync(batch), resolve().  A
\* throw in processBatchSync skips resolve(), and loadData waits for ever.
OpsIdleCallback ==
    /\ opsPhase = "batch"
    /\ LET r == processBatchSync(opsProducts, opsRubros,
                                 BatchSlice(OpsPayloadOf[opsData].items, opsBatch))
       IN  /\ opsProducts' = r.products
           /\ opsRubros' = r.rubros
           /\ IF r.threw
              THEN /\ opsPhase' = "hung"
                   /\ UNCHANGED <<opsBatch, opsSearchIndex, opsRubroSelect, opsFiltered,
                                  opsRenderVars>>
              ELSE IF opsBatch % YieldEvery = 0
                   THEN /\ opsPhase' = "yield"
                        /\ UNCHANGED <<opsBatch, opsSearchIndex, opsRubroSelect, opsFiltered,
                                       opsRenderVars>>
                   ELSE NextIteration(r.products, r.rubros)
    /\ UNCHANGED <<opsData, opsCurrentRubro, opsSortBy, opsLoading, opsInterleaved, opsSearchTerm,
                   opsSearchCache>>
    /\ UNCHANGED <<searchVars, pss>>

\* the timer of yieldToMainThread fires
OpsYieldTimer ==
    /\ opsPhase = "yield"
    /\ NextIteration(opsProducts, opsRubros)
    /\ UNCHANGED <<opsData, opsProducts, opsRubros, opsCurrentRubro, opsSortBy, opsLoading,
                   opsInterleaved, opsSearchTerm,
                   opsSearchCache>>
    /\ UNCHANGED <<searchVars, pss>>

\* the debounced handleSearch runs with the search box holding text
handleSearch(text) ==
    /\ Len(nodePool.cards) + Len(opsContainer) <= MaxPool
    /\ opsSearchTerm' = Trim(text)
    /\ IF Trim(text) = <<>>
       THEN /\ OpsSetRender([OpsRender EXCEPT !.view = "empty"])
            /\ UNCHANGED <<opsFiltered, opsSearchCache>>
       ELSE LET r == OpsPerformSearch(Trim(text), opsCurrentRubro, opsSortBy, opsProducts,
                                      opsSearchIndex, opsSearchCache)
            IN  /\ opsFiltered' = r.filtered
                /\ opsSearchCache' = r.cache
                /\ OpsSetRender(OpsRenderResults(OpsRender, r.filtered))
    /\ UNCHANGED <<opsLoadVars, opsCurrentRubro, opsSortBy, opsLoading, opsInterleaved>>
    /\ UNCHANGED <<searchVars, pss>>

\* handleFilterChange: a change event of the rubro or the sort select, whose
\* values are then r and s
handleFilterChange(r, s) ==
    /\ r \in opsRubroSelect
    /\ <<r, s>> # <<opsCurrentRubro, opsSortBy>>
    /\ Len(nodePool.cards) + Len(opsContainer) <= MaxPool
    /\ opsCurrentRubro' = r
    /\ opsSortBy' = s
    /\ IF opsSearchTerm # <<>>
       THEN LET found == OpsPerformSearch(opsSearchTerm, r, s, opsProducts, opsSearchIndex,
                                          opsSearchCache)
            IN  /\ opsFiltered' = found.filtered
                /\ opsSearchCache' = found.cache
                /\ OpsSetRender(OpsRenderResults(OpsRender, found.filtered))
       ELSE IF r # <<>>
       THEN LET ofRubro == SelectSeq([i \in DOMAIN opsProducts |-> i],
                                     LAMBDA i : opsProducts[i].rubro = r)
                sorted == OpsSortResults(ofRubro, s, opsProducts)
            IN  /\ opsFiltered' = sorted
                /\ opsSearchCache' = opsSearchCache
                /\ OpsSetRender(OpsRenderResults(OpsRender, sorted))
       ELSE /\ UNCHANGED <<opsFiltered, opsSearchCache>>
            /\ OpsSetRender([OpsRender EXCEPT !.view = "empty"])
    /\ opsInterleaved' = (opsInterleaved \/ opsPhase \in {"batch", "yield"})
    /\ UNCHANGED <<opsLoadVars, opsLoading, opsSearchTerm>>
    /\ UNCHANGED <<searchVars, pss>>

\* loadMoreProducts, called by the intersection observer or by the
\* animation-frame callback of handleScroll
loadMoreProducts ==
    /\ ~opsLoading
    /\ opsHasMore
    /\ opsLoading' = TRUE
    /\ UNCHANGED <<opsLoadVars, opsCurrentRubro, opsSortBy, opsFiltered, opsRenderVars,
                   opsInterleaved, opsSearchTerm,
                   opsSearchCache>>
    /\ UNCHANGED <<searchVars, pss>>

\* the animation-frame callback of loadMoreProducts
OpsRafCallback ==
    /\ opsLoading
    /\ OpsSetRender(renderNextBatch(OpsRender, opsFiltered))
    /\ opsLoading' = FALSE
    /\ UNCHANGED <<opsLoadVars, opsCurrentRubro, opsSortBy, opsFiltered, opsInterleaved, opsSearchTerm,
                   opsSearchCache>>
    /\ UNCHANGED <<searchVars, pss>>

\* click on the reset button
OpsResetClick ==
    /\ opsSearchTerm' = <<>>
    /\ opsFiltered' = <<>>
    /\ OpsSetRender([OpsRender EXCEPT !.view = "empty"])
    /\ UNCHANGED <<opsLoadVars, opsCurrentRubro, opsSortBy, opsLoading, opsInterleaved,
                   opsSearchCache>>
    /\ UNCHANGED <<searchVars, pss>>

----------------------------------------------------------------------------
(* Operations of OptimizedProductSearch in the revision of src/app.js, on  *)
(* the same state                                                          *)

\* the texts typed in the search box of the src/app.js revision
AppTexts == Texts \cup {<<"t","u">>, TxtEf, TxtGh}

\* the idle callback of processBatch in src/app.js: the first record of the
\* batch (record opsBatch * batchSize of data) is normalized and pushed, then this.indexProduct, which the class
\* does not define, is called: the TypeError skips resolve() and
\* processDataInBatches waits for ever.  (normalizeProduct throws before the
\* push on a null entry.)
AppIdleCallback ==
    /\ opsPhase = "batch"
    /\ opsProducts' = IF OpsPayloadOf[opsData].items[opsBatch * batchSize + 1].isNull
                       THEN opsProducts
                       ELSE Append(opsProducts, OpsNormalized[opsData][opsBatch * batchSize + 1])
    /\ opsPhase' = "hung"
    /\ UNCHANGED <<opsData, opsBatch, opsRubros, opsSearchIndex, opsRubroSelect,
                   opsCurrentRubro, opsSortBy, opsSearchTerm, opsSearchCache, opsFiltered,
                   opsLoading, opsRenderVars, opsInterleaved>>
    /\ UNCHANGED <<searchVars, pss>>

\* performSearch of src/app.js, entered from handleSearch after its cache
\* lookup (checked) or from handleFilterChange without one.  rendered tells
\* whether renderResults was reached: after the sort, the cache is trimmed
\* and searchCache.set(cacheKey, ...) reads cacheKey, a constant of
\* handleSearch that is not in scope here, which throws a ReferenceError.
AppPerformSearch(term, checked, rubro, sortBy, prods, idx, cache) ==
    LET words == OpsSearchWords(term)
        key == term \o <<"-">> \o rubro \o <<"-", sortBy>>
    IN  IF checked /\ \E i \in DOMAIN cache : cache[i].key = key
        THEN [filtered |-> cache[CHOOSE i \in DOMAIN cache : cache[i].key = key].list,
              cache |-> cache, rendered |-> TRUE]
        ELSE IF words = <<>> THEN [filtered |-> <<>>, cache |-> cache, rendered |-> TRUE]
        ELSE LET found == SelectSeq(AscendingSeq(IntersectFrom(idx, words, 1, {})),
                                    LAMBDA p : /\ ~(rubro # <<>> /\ prods[p].rubro # rubro)
                                               /\ prods[p].precio_venta > 0)
             IN  [filtered |-> OpsSortResults(found, sortBy, prods),
                  cache |-> IF Len(cache) >= OPS_CACHE_SIZE THEN Tail(cache) ELSE cache,
                  rendered |-> FALSE]

\* what a call of AppPerformSearch leaves in the state
AppSearched(r) ==
    /\ opsFiltered' = r.filtered
    /\ opsSearchCache' = r.cache
    /\ IF r.rendered THEN OpsSetRender(OpsRenderResults(OpsRender, r.filtered))
       ELSE UNCHANGED opsRenderVars

\* the debounced handleSearch of src/app.js runs with the search box holding
\* text; its showEmptyState also empties state.filtered and the container
AppHandleSearch(text) ==
    /\ opsSearchTerm' = Trim(text)
    /\ IF Trim(text) = <<>>
       THEN /\ opsFiltered' = <<>>
            /\ OpsSetRender([clearContainer(OpsRender) EXCEPT !.view = "empty"])
            /\ UNCHANGED opsSearchCache
       ELSE AppSearched(AppPerformSearch(Trim(text), TRUE, opsCurrentRubro, opsSortBy,
                                         opsProducts, opsSearchIndex, opsSearchCache))
    /\ UNCHANGED <<opsLoadVars, opsCurrentRubro, opsSortBy, opsLoading, opsInterleaved>>
    /\ UNCHANGED <<searchVars, pss>>

\* handleFilterChange of src/app.js: a change event of the rubro select or of
\* the sort select, whose values are then r and s
AppHandleFilterChange(r, s) ==
    /\ r \in opsRubroSelect
    /\ (r # opsCurrentRubro) # (s # opsSortBy)
    /\ opsCurrentRubro' = r
    /\ opsSortBy' = s
    /\ IF opsSearchTerm # <<>>
       THEN AppSearched(AppPerformSearch(opsSearchTerm, FALSE, r, s, opsProducts,
                                         opsSearchIndex, opsSearchCache))
       ELSE UNCHANGED <<opsFiltered, opsSearchCache, opsRenderVars>>
    /\ UNCHANGED <<opsLoadVars, opsSearchTerm, opsLoading, opsInterleaved>>
    /\ UNCHANGED <<searchVars, pss>>

----------------------------------------------------------------------------
(* ProductSearchSystem (src/app.js)                                        *)

\* products.json for ProductSearchSystem: codigo and descripcion are at most
\* two lower-case ASCII letters, which localeCompare orders as the alphabet
\* does in every locale
PssPayload ==
    << Raw(Str(<<"z","b">>), Str(<<"c","c">>), RubroEf, MarcaMx, Num(30)),
       Raw(Str(<<"z","a">>), Str(<<"a","a">>), RubroCdEf, MarcaMx, Num(10)),
       Raw(Str(<<"z","c">>), Str(<<"b","b">>), RubroEf, Undef, Num(20)) >>

\* the option values extractRubros leaves in the rubro select
PssRubroOptions ==
    {<<>>} \cup { Trim(PssPayload[i].rubro.s) :
                     i \in { j \in DOMAIN PssPayload : Truthy(PssPayload[j].rubro)
                                                        /\ Trim(PssPayload[j].rubro.s) # <<>> } }

\* the option values of the sort select
PssSorts == {"descripcion", "precio_asc", "precio_desc", "codigo"}

\* what the user types in the search box
PssTexts == {<<>>, <<"A","a">>, <<"z">>, <<"m","x">>, <<"b"," ">>}

\* the rank localeCompare gives to (v || '') for a text of at most two
\* lower-case ASCII letters
PssTextKey(v) ==
    LET t == OrEmpty(v).s
        rank(c) == CHOOSE i \in 1..26 : Lowers[i] = c
    IN  (IF Len(t) >= 1 THEN 27 * rank(t[1]) ELSE 0) + (IF Len(t) >= 2 THEN rank(t[2]) ELSE 0)

\* sortProducts: Array.prototype.sort (stable) of the given array under
\* currentSort; any other value leaves the array as it is
PssSorted(list, sort) ==
    CASE sort = "descripcion" ->
            StableSortByKey(list, [i \in DOMAIN list |-> PssTextKey(PssPayload[list[i]].descripcion)])
      [] sort = "precio_asc" ->
            StableSortByKey(list, [i \in DOMAIN list |->
                                     ToNumberOrZero(PssPayload[list[i]].precio_venta)])
      [] sort = "precio_desc" ->
            StableSortByKey(list, [i \in DOMAIN list |->
                                     0 - ToNumberOrZero(PssPayload[list[i]].precio_venta)])
      [] sort = "codigo" ->
            StableSortByKey(list, [i \in DOMAIN list |-> PssTextKey(PssPayload[list[i]].codigo)])
      [] OTHER -> list

\* the predicate of the search filter of filterProducts
PssMatches(p, search) ==
    LET lower(v) == [i \in DOMAIN v.s |-> ToLowerChar(v.s[i])]
        holds(v) == Truthy(v) /\ Includes(lower(v), search)
    IN  holds(PssPayload[p].descripcion) \/ holds(PssPayload[p].codigo)
           \/ holds(PssPayload[p].marca)

\* sortProducts on the state st: filteredProducts is sorted in place, and
\* so is products when it is the same array
PssSortProducts(st) ==
    LET sorted == PssSorted(st.filteredProducts, st.currentSort)
    IN  [st EXCEPT !.filteredProducts = sorted,
                   !.products = IF st.shared THEN sorted ELSE @]

\* filterProducts on the state st: filtered starts as this.products itself
\* and is replaced by a new array only by a filter that applies
PssFilterProducts(st) ==
    LET bySearch == IF st.currentSearch # <<>>
                    THEN SelectSeq(st.products, LAMBDA p : PssMatches(p, st.currentSearch))
                    ELSE st.products
        byRubro == IF st.currentRubro # <<>>
                   THEN SelectSeq(bySearch,
                                  LAMBDA p : /\ Truthy(PssPayload[p].rubro)
                                             /\ PssPayload[p].rubro.s = st.currentRubro)
                   ELSE bySearch
    IN  PssSortProducts([st EXCEPT !.filteredProducts = byRubro,
                                   !.shared = st.currentSearch = <<>> /\ st.currentRubro = <<>>])

\* every variable of the other two classes
notPssVars == <<searchVars, opsVars>>

\* loadProducts: the fetch succeeds; filteredProducts is a copy of products
PssLoadOk ==
    /\ pss.phase = "loading"
    /\ pss' = [pss EXCEPT !.phase = "loaded",
                          !.products = [i \in DOMAIN PssPayload |-> i],
                          !.filteredProducts = [i \in DOMAIN PssPayload |-> i],
                          !.shared = FALSE]
    /\ UNCHANGED notPssVars

\* loadProducts: the fetch fails; the catch leaves the arrays empty and init
\* goes on to initControls
PssLoadFails ==
    /\ pss.phase = "loading"
    /\ pss' = [pss EXCEPT !.phase = "error"]
    /\ UNCHANGED notPssVars

\* the input listener of the search box, whose value is text
PssInput(text) ==
    /\ pss.phase # "loading"
    /\ pss' = PssFilterProducts(
                  [pss EXCEPT !.currentSearch = Trim([i \in DOMAIN text |-> ToLowerChar(text[i])])])
    /\ UNCHANGED notPssVars

\* the click listener of the clear button
PssClearClick ==
    /\ pss.phase # "loading"
    /\ pss' = PssFilterProducts([pss EXCEPT !.currentSearch = <<>>])
    /\ UNCHANGED notPssVars

\* the change listener of the rubro select, whose value is r
PssRubroChange(r) ==
    /\ pss.phase # "loading"
    /\ r # pss.currentRubro
    /\ pss' = PssFilterProducts([pss EXCEPT !.currentRubro = r])
    /\ UNCHANGED notPssVars

\* the change listener of the sort select, whose value is s
PssSortChange(s) ==
    /\ pss.phase # "loading"
    /\ s # pss.currentSort
    /\ pss' = PssSortProducts([pss EXCEPT !.currentSort = s])
    /\ UNCHANGED notPssVars

----------------------------------------------------------------------------
(* Specifications                                                          *)

Next ==
    \/ \E payload \in Payloads : LoadOk(payload)
    \/ \E payload \in Payloads : LoadThrows(payload)
    \/ LoadFetchFails
    \/ \E text \in Texts : Input(text)
    \/ TimerFire
    \/ \E r \in rubroOptions : RubroChange(r)
    \/ \E sortType \in SortTypes : SortChange(sortType)
    \/ Scroll
    \/ RafCallback
    \/ ClearClick
    \/ ResetClick
    \/ Online
    \/ \E d \in OpsPayloads : OpsFetchOk(d)
    \/ OpsFetchFails
    \/ OpsIdleCallback
    \/ OpsYieldTimer
    \/ \E r \in opsRubroSelect, s \in SortTypes : handleFilterChange(r, s)
    \/ \E text \in Texts : handleSearch(text)
    \/ loadMoreProducts
    \/ OpsRafCallback
    \/ OpsResetClick
    \/ PssLoadOk
    \/ PssLoadFails
    \/ \E text \in PssTexts : PssInput(text)
    \/ PssClearClick
    \/ \E r \in PssRubroOptions : PssRubroChange(r)
    \/ \E s \in PssSorts : PssSortChange(s)
    \/ AppIdleCallback
    \/ \E text \in AppTexts : AppHandleSearch(text)
    \/ \E r \in opsRubroSelect, s \in SortTypes : AppHandleFilterChange(r, s)
    \/ \E cached \in BOOLEAN, net \in NetworkOutcomes : FetchThroughWorker(cached, net)

Spec == Init /\ [][Next]_vars

\* the texts and sort modes used while the cache is exercised
SearchTexts == {TxtEmpty, TxtAb, TxtAbCd}

SearchSorts == {"relevance", "price_asc"}

\* searching, filtering, sorting and clearing, without scrolling
NextSearch ==
    \/ \E payload \in Payloads : LoadOk(payload)
    \/ \E payload \in Payloads : LoadThrows(payload)
    \/ LoadFetchFails
    \/ \E text \in SearchTexts : Input(text)
    \/ TimerFire
    \/ \E r \in rubroOptions : RubroChange(r)
    \/ \E sortType \in SearchSorts : SortChange(sortType)
    \/ ClearClick
    \/ ResetClick

SearchSpec == Init /\ [][NextSearch]_vars

\* the texts typed while paging is exercised
PagingTexts == {TxtEmpty, TxtAb}

\* paging over the main catalog
NextPaging ==
    \/ LoadOk("main")
    \/ \E text \in PagingTexts : Input(text)
    \/ TimerFire
    \/ \E r \in rubroOptions : RubroChange(r)
    \/ \E sortType \in SearchSorts : SortChange(sortType)
    \/ Scroll
    \/ RafCallback
    \/ ClearClick
    \/ ResetClick

PagingSpec == Init /\ [][NextPaging]_vars

\* searching, paging and clearing over the main catalog while the connection
\* comes back now and then
NextCards ==
    \/ LoadOk("main")
    \/ \E text \in PagingTexts : Input(text)
    \/ TimerFire
    \/ \E r \in rubroOptions : RubroChange(r)
    \/ Scroll
    \/ RafCallback
    \/ ClearClick
    \/ Online

CardsSpec == Init /\ [][NextCards]_vars

\* typing and clearing over the main catalog, without filter, sort or scroll
NextDebounce ==
    \/ LoadOk("main")
    \/ \E text \in Texts : Input(text)
    \/ TimerFire
    \/ ClearClick
    \/ ResetClick

DebounceSpec == Init /\ [][NextDebounce]_vars

\* loading, searching, filtering and clearing, which fills the cache; the
\* lists are left in the order performSearch gives them
NextCache ==
    \/ \E payload \in Payloads : LoadOk(payload)
    \/ \E payload \in Payloads : LoadThrows(payload)
    \/ LoadFetchFails
    \/ \E text \in SearchTexts : Input(text)
    \/ TimerFire
    \/ \E r \in rubroOptions : RubroChange(r)
    \/ ClearClick
    \/ ResetClick

CacheSpec == Init /\ [][NextCache]_vars

\* queries with absent and unique words over the rank and the empty catalog
NextQuery ==
    \/ \E payload \in {"rank", "empty"} : LoadOk(payload)
    \/ \E text \in QueryTexts : Input(text)
    \/ TimerFire
    \/ \E r \in rubroOptions : RubroChange(r)
    \/ ClearClick

QuerySpec == Init /\ [][NextQuery]_vars

\* texts whose search can match nothing, and one whose search can
AbsentTexts == {TxtBlank, TxtAb, TxtAbZz, TxtZzAb}

\* queries that can match nothing, over the rank and the empty catalog
NextAbsent ==
    \/ \E payload \in {"rank", "empty"} : LoadOk(payload)
    \/ \E text \in AbsentTexts : Input(text)
    \/ TimerFire
    \/ \E r \in rubroOptions : RubroChange(r)

AbsentSpec == Init /\ [][NextAbsent]_vars

\* one query word that is the whole rubro of some items and one word of the
\* rubro of others, over the main catalog
NextThreshold ==
    \/ LoadOk("main")
    \/ \E text \in {TxtAb, TxtEf} : Input(text)
    \/ TimerFire
    \/ \E r \in rubroOptions : RubroChange(r)

ThresholdSpec == Init /\ [][NextThreshold]_vars

\* one query word over the rank catalog, filtered and sorted
NextRank ==
    \/ LoadOk("rank")
    \/ Input(TxtAb)
    \/ TimerFire
    \/ \E r \in rubroOptions : RubroChange(r)
    \/ \E sortType \in SearchSorts : SortChange(sortType)

RankSpec == Init /\ [][NextRank]_vars

\* the price catalog loaded, searched and filtered
NextPrices ==
    \/ LoadOk("prices")
    \/ \E text \in {TxtAb, TxtEf} : Input(text)
    \/ TimerFire
    \/ \E r \in rubroOptions : RubroChange(r)

PricesSpec == Init /\ [][NextPrices]_vars

\* the load with and without the service worker in front of fetch, then
\* searches
NextWorker ==
    \/ \E cached \in BOOLEAN, net \in NetworkOutcomes : FetchThroughWorker(cached, net)
    \/ LoadFetchFails
    \/ \E text \in {TxtAb, TxtZz} : Input(text)
    \/ TimerFire

WorkerSpec == Init /\ [][NextWorker]_vars

\* searching, filtering and every sort mode over the main catalog
NextSort ==
    \/ LoadOk("main")
    \/ \E text \in PagingTexts : Input(text)
    \/ TimerFire
    \/ \E r \in rubroOptions : RubroChange(r)
    \/ \E sortType \in SortTypes : SortChange(sortType)

SortSpec == Init /\ [][NextSort]_vars

\* OptimizedProductSearch: the load, with filter changes in between
NextOpsLoad ==
    \/ \E d \in OpsPayloads : OpsFetchOk(d)
    \/ OpsFetchFails
    \/ OpsIdleCallback
    \/ OpsYieldTimer
    \/ \E r \in opsRubroSelect, s \in SearchSorts : handleFilterChange(r, s)

OpsLoadSpec == Init /\ [][NextOpsLoad]_vars

\* OptimizedProductSearch: rendering and the node pool after a load
NextOpsPool ==
    \/ OpsFetchOk("main")
    \/ OpsIdleCallback
    \/ OpsYieldTimer
    \/ \E r \in opsRubroSelect, s \in SearchSorts : handleFilterChange(r, s)
    \/ loadMoreProducts
    \/ OpsRafCallback
    \/ OpsResetClick

OpsPoolSpec == Init /\ [][NextOpsPool]_vars

\* OptimizedProductSearch: typed searches and filter changes after a load.
\* "ab" is a word of the main catalog, "tu" a proper prefix of one, and
\* "ab-CD" a query of two words.
NextOpsSearch ==
    \/ OpsFetchOk("main")
    \/ OpsIdleCallback
    \/ OpsYieldTimer
    \/ \E text \in {TxtEmpty, TxtAb, TxtAbCd, <<"t","u">>} : handleSearch(text)
    \/ \E r \in opsRubroSelect : handleFilterChange(r, "relevance")

OpsSearchSpec == Init /\ [][NextOpsSearch]_vars

\* OptimizedProductSearch of src/app.js: the load of the main catalog, typed
\* searches and filter changes
NextAppSearch ==
    \/ OpsFetchOk("main")
    \/ AppIdleCallback
    \/ \E text \in AppTexts : AppHandleSearch(text)
    \/ \E r \in opsRubroSelect, s \in SortTypes : AppHandleFilterChange(r, s)

AppSearchSpec == Init /\ [][NextAppSearch]_vars

\* ProductSearchSystem: the load, then search, rubro and sort events
NextPss ==
    \/ PssLoadOk
    \/ PssLoadFails
    \/ \E text \in PssTexts : PssInput(text)
    \/ PssClearClick
    \/ \E r \in PssRubroOptions : PssRubroChange(r)
    \/ \E s \in PssSorts : PssSortChange(s)

PssSpec == Init /\ [][NextPss]_vars

\* the same with the idle callback of processBatch run whenever it is pending
AppFairSpec == AppSearchSpec /\ WF_vars(AppIdleCallback)

----------------------------------------------------------------------------
(* Properties                                                              *)

\* a step in which performSearch runs: the debounce timer or the rubro listener
performSearchRuns == TimerFire \/ \E r \in rubroOptions : RubroChange(r)

\* the whole words of the searchText of every item of every catalog: what
\* \bword\b can match in it
searchTextWords ==
    [c \in DOMAIN PayloadOf |->
        [p \in DOMAIN Processed[c].normalizedData |->
            Range(SplitWords(Processed[c].normalizedData[p].searchText))] @@ <<>>] @@ <<>>

\* the query words of every term the inputs can produce
queryWords == [t \in Terms |-> SearchWords(t)] @@ <<>>

\* C1: whenever performSearch runs on a term with at least one word of two or
\* more characters, every entry of the result list it leaves is an item whose
\* searchText holds every such query word as a whole word.
C1_EveryQueryWordIsWholeWord ==
    [][performSearchRuns /\ queryWords[searchTerm'] # <<>>
       => \A i \in DOMAIN results' :
            \A w \in Range(queryWords[searchTerm']) :
                w \in searchTextWords[catalog'][results'[i].index]]_vars

\* a two-word query has been searched (no timer is left) and has results
C1_Witness ==
    /\ timersPending = 0
    /\ Len(queryWords[searchTerm]) >= 2
    /\ results # <<>>
    /\ view = "results"

\* C2 (as the specification states it): whenever performSearch runs with a
\* category filter set, every entry of the result list it leaves, from a cache
\* miss or from a cache hit, is an item of exactly that category.
C2_FilteredResultsAreOfTheFilter ==
    [][performSearchRuns /\ currentRubro' # <<>>
       => \A i \in DOMAIN results' : products'[results'[i].index].rubro = currentRubro']_vars

\* C3 (as the specification states it): whenever performSearch runs on a
\* (term, filter) pair whose key is in the cache, the list it leaves is the
\* list that was stored when the key was inserted, order included.
C3_HitReturnsTheStoredList ==
    [][performSearchRuns
       => \A i \in DOMAIN searchCache :
            searchCache[i].key = getCacheKey(searchTerm', currentRubro')
                => results' = searchCache[i].orig]_vars

C5_IndexTokensAndPositionsValid ==
    \A w \in DOMAIN searchIndex :
        /\ Len(w) >= 2
        /\ \A p \in searchIndex[w] :
              /\ p \in 1..Len(normalizedData)
              /\ p \in 1..Len(products)
              /\ w \in searchTextWords[catalog][p]

\* a catalog is loaded from which raw records were dropped, and it is indexed
C5_Witness ==
    /\ phase = "loaded"
    /\ Len(normalizedData) > 0
    /\ Len(normalizedData) < Len(PayloadOf[catalog])
    /\ normalizedData[Len(normalizedData)].index > Len(normalizedData) - 1
    /\ DOMAIN searchIndex # {}

\* the size of page i of a list of n entries
PageSize(n, i) ==
    IF n <= BATCH_SIZE * (i - 1) THEN 0 ELSE Min(BATCH_SIZE, n - BATCH_SIZE * (i - 1))

\* C6: while a non-empty result list is shown, page i delivered since the last
\* reset has the size of [p(i-1), min(p*i, n)), the cards are the first offset
\* entries of the list in order, offset is the sum of the pages, and once
\* offset reaches n hasMore is false and a further page is empty.
C6_PagesAreConsecutiveSlices ==
    results # <<>> =>
        /\ Len(pages) >= 1
        /\ \A i \in DOMAIN pages : pages[i] = PageSize(Len(results), i)
        /\ offset = SumSeq(pages)
        /\ offset = Min(Len(results), BATCH_SIZE * Len(pages))
        /\ container = [i \in 1..offset |-> results[i].index]
        /\ hasMore = (offset < Len(results))

\* a list has been paged to its end in three pages, the last one short
C6_Witness ==
    /\ results # <<>>
    /\ Len(pages) = 3
    /\ pages[3] \in 1..(BATCH_SIZE - 1)
    /\ offset = Len(results)
    /\ ~hasMore

\* C7 (as the specification states it): offset never exceeds the length of the
\* result list.
C7_OffsetWithinResults == offset <= Len(results)

\* C8: at most one debounce timer is pending; when it fires after a burst of
\* non-empty input events it is the only one, and performSearch runs on the
\* trimmed text of the last event of the burst.
C8_OneSearchWithTheLastText ==
    /\ [](timersPending <= 1)
    /\ [][TimerFire /\ burstText # NoText
          => /\ timersPending' = 0
             /\ searchTerm = Trim(burstText)
             /\ CacheHas(searchCache', getCacheKey(Trim(burstText), currentRubro))
             /\ results' = CacheGet(searchCache', getCacheKey(Trim(burstText), currentRubro))]_vars

\* a burst of two or more input events has ended in a search on the last text
C8_Witness ==
    /\ coalesced
    /\ timersPending = 0
    /\ searchTerm # <<>>
    /\ CacheHas(searchCache, getCacheKey(searchTerm, currentRubro))
    /\ view \in {"results", "noResults"}

\* C9: a page request is in flight exactly while isLoading is set, at most one
\* callback is pending, a request made meanwhile changes nothing, and the
\* callback of an accepted request advances offset by at most one page.
C9_OnePageRequestInFlight ==
    /\ [](rafPending <= 1)
    /\ [](isLoading <=> rafPending = 1)
    /\ [][Scroll /\ isLoading => UNCHANGED <<rafPending, isLoading, offset, container>>]_vars
    /\ [][RafCallback => offset <= offset' /\ offset' <= offset + BATCH_SIZE]_vars

\* a page request is in flight while more pages remain
C9_Witness == isLoading /\ rafPending = 1 /\ hasMore /\ offset < Len(results)

\* C10 (as the specification states it): a catalog load leaves no cached list
\* that was computed before it.
C10_LoadEmptiesTheCache ==
    [][(\E payload \in Payloads : LoadOk(payload)) => searchCache' = <<>>]_vars

\* a raw record with the fields the load asks for, codigo and descripcion strings
WellFormedRecord(raw) ==
    /\ ~raw.isNull
    /\ ~Incomplete(raw)
    /\ raw.codigo.t = "str"
    /\ raw.descripcion.t = "str"

\* the positions of the well-formed records of a payload, ascending
WellFormedPositions(payload) ==
    AscendingSeq({ i \in DOMAIN payload : WellFormedRecord(payload[i]) })

\* C11 (as the specification states it): once a payload has been taken, the
\* load has not ended in the error state and the catalog holds every
\* well-formed record of the payload, in order; malformed ones are dropped
\* on their own.
C11_MalformedRecordsDroppedAlone ==
    catalog # "none" =>
        /\ phase = "loaded"
        /\ Len(products) = Len(WellFormedPositions(PayloadOf[catalog]))
        /\ \A k \in DOMAIN products :
              normalizedData[k].index = WellFormedPositions(PayloadOf[catalog])[k] - 1

\* C12 (as the specification states it): a load that ends in the error state
\* leaves the catalog and the index as they were before it began.
C12_FailedLoadLeavesCatalogAlone ==
    [][phase' = "error"
       => /\ products' = products
          /\ normalizedData' = normalizedData
          /\ searchIndex' = searchIndex]_vars

\* C13 (as the specification states it): every score is in [0,1], which is
\* 0..100 on the scale of the weights.
C13_ScoresWithinUnitInterval ==
    \A i \in DOMAIN results : results[i].score >= 0 /\ results[i].score <= 100

\* how the codigo of an item holds a query word: 3 equal, 2 prefix, 1 infix
CodeSignal(n, w) ==
    IF n.codigoNormalized = w THEN 3
    ELSE IF StartsWith(n.codigoNormalized, w) THEN 2
    ELSE IF Includes(n.codigoNormalized, w) THEN 1
    ELSE 0

\* the description, brand, category and whole-word signals of an item
OtherSignals(n, w) ==
    << ArrayIncludes(SplitWords(n.descripcionNormalized), w),
       Includes(n.descripcionNormalized, w),
       n.marcaNormalized = w,
       Includes(n.marcaNormalized, w),
       n.rubroNormalized = w,
       WholeWordMatches(n.searchText, w) >>

\* C14 (as the specification states it): after performSearch runs on a
\* one-word query w, of two entries of the result list with equal other
\* signals the one whose code holds w more strongly (equal > prefix > infix)
\* has the strictly higher score and comes earlier in the list.
C14_StrongerCodeMatchRanksEarlier ==
    [][performSearchRuns /\ Len(queryWords[searchTerm']) = 1
       => LET w == queryWords[searchTerm'][1]
              nd == normalizedData'
          IN  \A i, j \in DOMAIN results' :
                LET a == nd[results'[i].index]
                    b == nd[results'[j].index]
                IN  (/\ OtherSignals(a, w) = OtherSignals(b, w)
                     /\ CodeSignal(b, w) >= 1
                     /\ CodeSignal(a, w) > CodeSignal(b, w))
                    => results'[i].score > results'[j].score /\ i < j]_vars

\* the positions of the catalog whose searchText holds w as a whole word
HoldersOf(c, w) == { p \in DOMAIN Processed[c].normalizedData : w \in searchTextWords[c][p] }

\* C15 (as the specification states it): after performSearch runs with no
\* filter on a one-word query whose word is a whole word of the description
\* of one item and of no other item's searchText, the result list is exactly
\* that item, with a positive score.
C15_UniqueDescriptionWordFindsItsItem ==
    [][(/\ performSearchRuns
        /\ currentRubro' = <<>>
        /\ Len(queryWords[searchTerm']) = 1
        /\ Cardinality(HoldersOf(catalog', queryWords[searchTerm'][1])) = 1
        /\ \A p \in HoldersOf(catalog', queryWords[searchTerm'][1]) :
              ArrayIncludes(SplitWords(normalizedData'[p].descripcionNormalized),
                            queryWords[searchTerm'][1]))
       => /\ Len(results') = 1
          /\ results'[1].index \in HoldersOf(catalog', queryWords[searchTerm'][1])
          /\ results'[1].score > 0]_vars

\* the query has no word of two or more characters, or a word the index lacks
\* (every word, when the index is empty)
QueryCannotMatch(term, idx) ==
    \/ queryWords[term] = <<>>
    \/ \E i \in DOMAIN queryWords[term] : queryWords[term][i] \notin DOMAIN idx

Occurrences(list, e) == Cardinality({ i \in DOMAIN list : list[i] = e })

\* the price of the item a result entry stands for
PriceOf(entry) == products[entry.index].precio_venta

\* C17: a sort selection leaves a permutation of the result list, runs no
\* query (the cache keeps its keys), and leaves the catalog, the index, the
\* search term and the filter alone; the list is then in non-decreasing price
\* order (price_asc), non-increasing price order (price_desc) or
\* non-increasing score order (relevance).
C17_SortOnlyPermutes ==
    [][(\E sortType \in SortTypes : SortChange(sortType))
       => /\ Len(results') = Len(results)
          /\ \A i \in DOMAIN results : Occurrences(results', results[i]) = Occurrences(results, results[i])
          /\ UNCHANGED <<catalog, searchTerm, currentRubro, inserted>>
          /\ products' = products
          /\ searchIndex' = searchIndex
          /\ CacheKeys(searchCache') = CacheKeys(searchCache)
          /\ \A i, j \in DOMAIN results' :
                i < j =>
                    CASE sortMode' = "price_asc"  -> PriceOf(results'[i]) <= PriceOf(results'[j])
                      [] sortMode' = "price_desc" -> PriceOf(results'[i]) >= PriceOf(results'[j])
                      [] OTHER -> results'[i].score >= results'[j].score]_vars

\* a list of three or more entries is shown by descending price, which is not
\* its score order
C17_Witness ==
    /\ sortMode = "price_desc"
    /\ Len(results) >= 3
    /\ \A i, j \in DOMAIN results : i < j => PriceOf(results[i]) >= PriceOf(results[j])
    /\ \E i, j \in DOMAIN results : i < j /\ results[i].score < results[j].score


\* C18: between two clearContainer calls every getProductNode returns a node
\* it has not returned since the clear, and the container of a rendered grid
\* holds one card for each result rendered so far.
C18_NodesHandedOutAreDistinct ==
    /\ \A i, j \in DOMAIN opsHanded : i # j => opsHanded[i] # opsHanded[j]
    /\ opsView = "grid" => Len(opsContainer) = opsOffset

\* C19: a document that is not an array (an object, a number, null) ends the
\* load in the error state, never as a completed load.
C19_NonSequencePayloadFailsTheLoad ==
    (opsData # "none" /\ OpsPayloadOf[opsData].kind # "array") => opsPhase = "error"

\* C20: while batches are pending state.products holds exactly the normalized
\* records of the batches done, in the payload's order, whatever filter
\* changes were handled in between; when the load completes it holds every
\* record once, in order; and the index is not filled before that.
C20_BatchesIngestedInOrder ==
    LET all == OpsNormalized[opsData]
    IN  /\ opsPhase = "batch" =>
              opsProducts = SubSeq(all, 1, Min(opsBatch * batchSize, Len(all)))
        /\ opsPhase = "yield" =>
              opsProducts = SubSeq(all, 1, Min((opsBatch + 1) * batchSize, Len(all)))
        /\ opsPhase = "loaded" => opsProducts = all
        /\ opsSearchIndex # <<>> =>
              opsPhase = "loaded" /\ opsSearchIndex = buildSearchIndex(all)

\* a load of more than two batches has completed, a filter change having
\* been handled between two of its batches
C20_Witness ==
    /\ opsPhase = "loaded"
    /\ opsInterleaved
    /\ opsBatch > 2
    /\ Len(opsProducts) = Len(OpsPayloadOf[opsData].items)
    /\ opsSearchIndex # <<>>


\* C21: the cache key of the pair (query text, category filter) the next
\* search will use is the key of no other pair of a query text and an option
\* of the category select.
C21_KeyIdentifiesThePair ==
    \A t \in Terms, r \in rubroOptions :
        getCacheKey(t, r) = getCacheKey(searchTerm, currentRubro)
            => <<t, r>> = <<searchTerm, currentRubro>>


\* C22: a debounce timer fires only for the text of the latest input event:
\* once the box has been emptied (an input event with empty text, the clear
\* or the reset button) no timer fires, so performSearch does not run and
\* the empty state stays displayed.
C22_EmptyingTheBoxCancelsThePendingSearch ==
    [][TimerFire => burstText # NoText]_vars


\* C23: once the load has completed, whenever performSearch runs for a pair
\* (q, c) the list it leaves is the list a computation over the loaded
\* catalog gives for (q, c), whatever was searched before the load completed.
C23_SearchesDuringTheLoadLeaveNoTrace ==
    [][performSearchRuns /\ phase = "loaded"
       => results' = Computed[catalog][<<searchTerm', currentRubro'>>]]_vars


\* C24: a performSearch that misses the cache leaves the result list in
\* non-increasing score order, entries of equal score in ascending catalog
\* position, whatever the sort select shows.
C24_MissRanksByScoreThenPosition ==
    [][performSearchRuns
       /\ ~CacheHas(searchCache, getCacheKey(searchTerm', currentRubro'))
       => \A i, j \in DOMAIN results' :
            i < j => \/ results'[i].score > results'[j].score
                     \/ /\ results'[i].score = results'[j].score
                        /\ results'[i].index < results'[j].index]_vars

\* a search has left, while the sort select shows a price order, a list that is
\* not in that price order and holds two entries of equal score
C24_Witness ==
    /\ sortMode = "price_asc"
    /\ shared = NoKey
    /\ \E i \in DOMAIN results : \E j \in DOMAIN results :
          i < j /\ PriceOf(results[i]) > PriceOf(results[j])
    /\ \E i \in DOMAIN results : \E j \in DOMAIN results :
          i < j /\ results[i].score = results[j].score


\* for every catalog, term and rubro, the scored candidates that pass the
\* MIN_SCORE filter
Passing ==
    [c \in DOMAIN PayloadOf |->
        [q \in Terms \X RubroValues |->
            SelectSeq(calculateProductScores(findRelevantProducts(q[1], IndexOf[c]), q[1], q[2],
                                             Processed[c].products, Processed[c].normalizedData),
                      LAMBDA r : r.score >= MIN_SCORE)] @@ <<>>] @@ <<>>

\* C25: the result list never holds more than MAX_RESULTS entries nor an entry
\* that scores less than MIN_SCORE, and after a performSearch that misses the
\* cache no candidate that passed the threshold and was left out scores more
\* than an entry of the list.
C25_ResultsCappedToTheBestScores ==
    /\ [](/\ Len(results) <= MAX_RESULTS
          /\ \A i \in DOMAIN results : results[i].score >= MIN_SCORE)
    /\ [][performSearchRuns
          /\ ~CacheHas(searchCache, getCacheKey(searchTerm', currentRubro'))
          => \A d \in Range(Passing[catalog][<<searchTerm', currentRubro'>>]) \ Range(results') :
                \A i \in DOMAIN results' : d.score <= results'[i].score]_vars

\* the list holds MAX_RESULTS entries of a search more candidates of which
\* passed the threshold
C25_Witness ==
    /\ Len(results) = MAX_RESULTS
    /\ view = "results"
    /\ Len(Passing[catalog][<<searchTerm, currentRubro>>]) > MAX_RESULTS
    /\ Range(results) \subseteq Range(Passing[catalog][<<searchTerm, currentRubro>>])


\* C26: after a performSearch that misses the cache, every item whose
\* searchText holds every query word as a whole word and whose category is the
\* selected one (or none is selected) is in the result list, unless more than
\* MAX_RESULTS items are such.
C26_ThresholdDropsOnlyVetoedCandidates ==
    [][performSearchRuns
       /\ ~CacheHas(searchCache, getCacheKey(searchTerm', currentRubro'))
       /\ queryWords[searchTerm'] # <<>>
       => LET matching == { p \in DOMAIN products :
                              /\ \A w \in Range(queryWords[searchTerm']) :
                                    w \in searchTextWords[catalog][p]
                              /\ currentRubro' \in {<<>>, products[p].rubro} }
          IN  Cardinality(matching) <= MAX_RESULTS
                 => \A p \in matching : \E i \in DOMAIN results' : results'[i].index = p]_vars


C29_ContainerIsTheDeliveredPrefix ==
    /\ offset <= Len(results)
    /\ container = [i \in 1..offset |-> results[i].index]
    /\ opsView = "grid" =>
          /\ opsOffset <= Len(opsFiltered)
          /\ [i \in DOMAIN opsContainer |-> opsShows[opsContainer[i]]]
                = SubSeq(opsFiltered, 1, opsOffset)

\* C30: hasMore is true exactly when offset < results.length, and it is false
\* whenever the search box is empty.
C30_HasMoreTellsWhetherEntriesRemain ==
    /\ hasMore = (offset < Len(results))
    /\ ~clearBtnShown => ~hasMore

\* the items of the loaded catalog that a search for term under the rubro
\* filter is to return: price above 0, rubro equal to the filter when one is
\* set, every query word a prefix of a word of one of the four fields
OpsMatching(term, rubro) ==
    LET words == OpsSearchWords(term)
        fieldWords(p) ==
            UNION { Range(SplitWords(normalizeString(f))) :
                    f \in {opsProducts[p].descripcion, opsProducts[p].codigo,
                           opsProducts[p].marca, opsProducts[p].rubro} }
    IN  { p \in DOMAIN opsProducts :
            /\ opsProducts[p].precio_venta > 0
            /\ rubro # <<>> => opsProducts[p].rubro = rubro
            /\ \A i \in DOMAIN words : \E w \in fieldWords(p) : StartsWith(w, words[i]) }

\* C28: once the catalog is loaded and indexed, a performSearch of
\* OptimizedProductSearch that misses the cache (it is the only step that
\* adds a cache entry) leaves in state.filtered, each once, exactly the items
\* with a price above 0, of the selected rubro when one is selected, in which
\* every query word of two characters or more is a prefix of a word of the
\* description, the code, the brand or the rubro.
C28_MissReturnsThePrefixMatches ==
    [][(opsPhase = "loaded" /\ opsSearchCache' # opsSearchCache)
        => /\ Range(opsFiltered') = OpsMatching(opsSearchTerm', opsCurrentRubro')
           /\ Cardinality(Range(opsFiltered')) = Len(opsFiltered')]_vars

\* a search computed on the loaded catalog under a rubro filter returned
\* items and left out an item that holds the words for its rubro and
\* another, of the selected rubro, for its price
C28_Witness ==
    /\ opsPhase = "loaded"
    /\ opsCurrentRubro # <<>>
    /\ opsSearchCache # <<>>
    /\ opsSearchCache[Len(opsSearchCache)].key
            = opsSearchTerm \o <<"-">> \o opsCurrentRubro \o <<"-", opsSortBy>>
    /\ opsSearchCache[Len(opsSearchCache)].list = opsFiltered
    /\ opsFiltered # <<>>
    /\ Range(opsFiltered) = OpsMatching(opsSearchTerm, opsCurrentRubro)
    /\ \E p \in OpsMatching(opsSearchTerm, <<>>) : p \notin Range(opsFiltered)
    /\ \E p \in DOMAIN opsProducts :
            /\ opsProducts[p].precio_venta = 0
            /\ opsProducts[p].rubro = opsCurrentRubro
            /\ \A i \in DOMAIN OpsSearchWords(opsSearchTerm) :
                    p \in opsSearchIndex[OpsSearchWords(opsSearchTerm)[i]]

\* C31 (as the specification states it): every item of state.products has a
\* price that is a number not below 0.
C31_AcceptedPricesAreNotNegative ==
    \A k \in DOMAIN products : products[k].precio_venta >= 0

\* C32 (as the specification states it): a load whose fetch failed on the
\* network ends in the error state; the document named fallback is the one
\* loadProducts receives when the network request was rejected.
C32_FailedFetchEndsInError ==
    catalog = "fallback" => phase = "error"

\* a search trigger of OptimizedProductSearch, in either revision
OpsSearchTrigger ==
    \/ \E text \in AppTexts : handleSearch(text) \/ AppHandleSearch(text)
    \/ \E r \in opsRubroSelect, s \in SortTypes :
            handleFilterChange(r, s) \/ AppHandleFilterChange(r, s)

\* C33 (as the specification states it): a search trigger whose term has a
\* word of two characters or more and whose key is not in the cache stores
\* state.filtered in the cache under the key of (term, rubro, sort), and
\* reaches renderResults, which shows the first batch of the new list.
C33_MissIsCachedAndRendered ==
    [][(/\ OpsSearchTrigger
        /\ OpsSearchWords(opsSearchTerm') # <<>>
        /\ \A i \in DOMAIN opsSearchCache :
              opsSearchCache[i].key
                 # opsSearchTerm' \o <<"-">> \o opsCurrentRubro' \o <<"-", opsSortBy'>>)
        => /\ \E i \in DOMAIN opsSearchCache' :
                 /\ opsSearchCache'[i].key
                       = opsSearchTerm' \o <<"-">> \o opsCurrentRubro' \o <<"-", opsSortBy'>>
                 /\ opsSearchCache'[i].list = opsFiltered'
           /\ opsView' = IF opsFiltered' = <<>> THEN "noResults" ELSE "grid"
           /\ opsOffset' = Min(OPS_BATCH_SIZE, Len(opsFiltered'))]_vars

\* C34 (as the specification states it): a load whose batches are being
\* processed eventually reaches the loaded state or the error state.
C34_LoadEventuallyFinishes ==
    (opsPhase \in {"batch", "yield"}) ~> (opsPhase \in {"loaded", "error"})

\* C35 (as the specification states it): once loaded, this.products of
\* ProductSearchSystem holds the records of products.json in their order,
\* whatever search, rubro and sort events were handled.
C35_FilterAndSortLeaveTheCatalog ==
    pss.phase = "loaded" => pss.products = [i \in DOMAIN PssPayload |-> i]

\* C36: FerreteriaSearchSystem: no node is at the same time in nodePool and
\* in the products container, nodePool never holds the same node twice, and
\* a step in which createProductCard has created a node ends with nodePool
\* empty: a node is created only when the pool has none to give.
C36_PoolAndDisplayAreDisjoint ==
    /\ [](/\ Range(cardNodes.pool) \cap Range(cardNodes.shown) = {}
          /\ Cardinality(Range(cardNodes.pool)) = Len(cardNodes.pool))
    /\ [][phase = "loaded" /\ cardNodes'.made > cardNodes.made
          => cardNodes'.pool = <<>>]_vars

\* createProductCard has created a node, and since the last clear the cards
\* on display were taken from a pool that still holds nodes
C36_Witness ==
    /\ phase = "loaded"
    /\ cardNodes.made > PrefillNodes
    /\ cardNodes.pool # <<>>
    /\ cardNodes.shown # <<>>
    /\ Len(cardNodes.shown) = Len(container)
    /\ view = "results"

\* C37: FerreteriaSearchSystem: state.products and state.normalizedData have
\* the same length, position k of both was made from the same record of the
\* payload (the one normalizedData[k].index names), also when records were
\* dropped or the processing stopped on a throw, and every position filed in
\* the search index is a position of both arrays.
C37_ProductsAndNormalizedDataAligned ==
    /\ Len(products) = Len(normalizedData)
    /\ \A k \in DOMAIN normalizedData :
          LET i == normalizedData[k].index
          IN  /\ i + 1 \in DOMAIN PayloadOf[catalog]
              /\ normalizedData[k] = NormalizedOf(PayloadOf[catalog][i + 1], i)
              /\ products[k] = ProductOf(NormalizedOf(PayloadOf[catalog][i + 1], i))
    /\ \A w \in DOMAIN searchIndex : searchIndex[w] \subseteq DOMAIN products

\* a record was dropped on the load, and a search has found an item whose
\* position in the arrays is not its place in the payload
C37_Witness ==
    /\ phase = "loaded"
    /\ Len(products) < Len(PayloadOf[catalog])
    /\ results # <<>>
    /\ \E k \in DOMAIN results :
          /\ results[k].index \in DOMAIN normalizedData
          /\ normalizedData[results[k].index].index # results[k].index - 1

====
